---- MODULE Spec2Model ----
(***************************************************************************)
(* Verification model of scripts/snapshot.py: the layered task scheduler   *)
(* (run_task_graph), the two-preset driver (provision_and_snapshot), the   *)
(* snapshot manifest store (_normalize_manifest, _load_manifest,           *)
(* _write_manifest, _update_manifest_with_snapshot), the HTTP exec client  *)
(* (HttpExecClient._run_sync and wait_ready, in snapshot.py and            *)
(* snapshot/exec.py), the task registry (TaskRegistry.task) and the task   *)
(* context with the exec daemon installer (TaskContext,                    *)
(* setup_exec_service).                                                    *)
(***************************************************************************)
EXTENDS Integers, Sequences, FiniteSets, TLC

\* ------------------------------------------------------------------ bounds
\* Number of task names a generated registry may use.
NumTasks == 3
\* Largest number of (task, dependency) pairs of a generated registry.
MaxEdges == 4

\* ----------------------------------------------------------------- helpers
Range(s) == {s[i] : i \in 1..Len(s)}

\* ---------------------------------------------------- scheduler variables
VARIABLES
    registry,      \* TaskRegistry._tasks: names in registration order, deps
    remaining,     \* run_task_graph: names still pending, in dict order
    completed,     \* run_task_graph: the completed set
    taskState,     \* per task: pending, running, ok, failed or cancelled
    starts,        \* per task: how many times its coroutine was started
    now,           \* time.perf_counter(), as a count of the events so far
    startT,        \* per task: the time its coroutine was started (0: never)
    endT,          \* per task: the time its function returned or raised
    layer,         \* the names handed to the gather in flight
    timings,       \* ctx.timings._entries
    pc,            \* position of run_task_graph and of its caller
    unresolved     \* names listed by the dependency-cycle error

graphVars == <<registry, remaining, completed, taskState, starts, now,
               startT, endT, layer, timings, pc, unresolved>>

\* ------------------------------------------------------ manifest variables
VARIABLES
    args,            \* the parsed command line
    clock,           \* the wall clock, in seconds
    manifestFile,    \* the file at MORPH_SNAPSHOT_MANIFEST_PATH
    manifest,        \* provision_and_snapshot: the manifest in memory
    updates,         \* per plan: the updates applied for it so far
    loadedManifest,  \* the manifest as _load_manifest returned it
    prevManifest,    \* the manifest handed to the latest update
    lastPlan,        \* the plan of the latest update (0: none yet)
    mpc              \* position of the manifest's owner

manVars == <<args, clock, manifestFile, manifest, updates, loadedManifest,
             prevManifest, lastPlan, mpc>>

\* ---------------------------------------------------------- run variables
VARIABLES
    phase,              \* per preset: the await its run is at
    startedInstances,   \* started_instances, the presets whose VM was booted
    results,            \* per preset: the SnapshotRunResult, once returned
    stopped,            \* per preset: how often the cleanup hook stopped its VM
    ttlSet,             \* per preset: the set_ttl call made after the gather
    writes              \* how many times the manifest file was written

runVars == <<phase, startedInstances, results, stopped, ttlSet, writes>>

\* ------------------------------------------- manifest round-trip variables
VARIABLES
    rawInput,          \* a manifest dict as json.loads or a caller gives it
    normalized,        \* what _normalize_manifest returned for rawInput
    normalizedAgain,   \* what it returned when given that result
    written,           \* the file _write_manifest left for rawInput
    reloaded,          \* what _load_manifest returned for that file
    nclock,            \* the wall clock, in seconds
    npc                \* which of the calls were made

normVars == <<rawInput, normalized, normalizedAgain, written, reloaded,
              nclock, npc>>

\* --------------------------------------------------- exec client variables
VARIABLES
    client,        \* which HttpExecClient runs: snapshot.py's or exec.py's
    answers,       \* what the server answered to each POST /exec so far
    delays,        \* the time.sleep calls so far, in seconds
    attempt,       \* _run_sync: the loop variable of the retry loop
    body,          \* the lines of the 200 response, as the server sent them
    pending,       \* the lines not read yet
    stdout_parts,  \* _run_sync: stdout_parts
    stderr_parts,  \* _run_sync: stderr_parts
    exit_code,     \* _run_sync: exit_code (NoExitCode: None)
    execResult,    \* the InstanceExecResponse returned
    warned,        \* "did not report exit code" was written to the console
    execError,     \* what the RuntimeError of a non-zero exit code carries
    epc            \* position of _run_sync

execVars == <<client, answers, delays, attempt, body, pending, stdout_parts,
              stderr_parts, exit_code, execResult, warned, execError, epc>>

\* ------------------------------------------------- task context variables
VARIABLES
    exec_client,      \* ctx.exec_client is attached (not None)
    cgroup_path,      \* ctx.cgroup_path ("": None)
    sent,             \* the commands handed to a backend, in call order
    ipc,              \* position of the build-setup-exec-binary task
    upload_attempts,  \* setup_exec_service: upload_attempts
    upload_sleeps,    \* setup_exec_service: the sleeps between uploads
    steps,            \* what the installer did so far, with the outcomes
    cpc,              \* position of the configure-provisioning-cgroup task
    apc,              \* position of the apt-bootstrap task
    lpc,              \* position of a task of the second layer
    retries,          \* wait_ready: retries
    delay,            \* wait_ready: delay, in half seconds
    checks,           \* wait_ready: the outcomes of the _check_health calls
    sleeps,           \* wait_ready: the delays of the asyncio.sleep calls
    wpc               \* position of wait_ready

ctxVars == <<exec_client, cgroup_path, sent, ipc, upload_attempts,
             upload_sleeps, steps, cpc, apc, lpc, retries, delay, checks,
             sleeps, wpc>>

\* ------------------------------------------------ registration variables
VARIABLES
    registered,    \* TaskRegistry._tasks: the definitions, in dict order
    regOutcome,    \* how the latest registration ended
    regBefore      \* _tasks as it was before the latest registration

regVars == <<registered, regOutcome, regBefore>>

\* ---------------------------------- resource profile variables
VARIABLES
    profileArgs,  \* _build_resource_profile: vcpus and memory_mib
    profile       \* the ResourceProfile returned (<<>>: not built yet)

profVars == <<profileArgs, profile>>

\* -------------------------------------- exec request variables
VARIABLES
    reqArgs,  \* _run_sync: the client, command and timeout it is called with
    request   \* the POST /exec request built (<<>>: not built yet)

reqVars == <<reqArgs, request>>

\* ------------------------------------------ SSH exec variables
VARIABLES
    sshPath,      \* the function running the command
    sshAttempts,  \* _run_command: attempts; _exec_with_retry: the calls made
    sshLog,       \* how each call of the SDK's exec ended, in call order
    sshSleeps,    \* the delays slept, in half seconds
    sshError,     \* the error raised to the caller ("": none)
    spc           \* position in the retry loop

sshVars == <<sshPath, sshAttempts, sshLog, sshSleeps, sshError, spc>>

\* ----------------------------------- TaskContext.run variables
VARIABLES
    crLabel,   \* run: label
    crClient,  \* run: self.exec_client is not None
    crCalls,   \* the calls made to the backends, in call order
    crTail,    \* how the aexec call of _collect_execd_log ended (<<>>: not made)
    crError,   \* the message of the exception run raised (<<>>: none)
    crpc       \* position in run

crVars == <<crLabel, crClient, crCalls, crTail, crError, crpc>>

\* --------------------------------------- upload-repo variables
VARIABLES
    repoFiles,       \* list_repo_files: what each listed path is on disk
    archiveExists,   \* the local cmux-repo-*.tar file exists
    archiveEntries,  \* the indices of the files added to the archive
    remoteTar,       \* the archive was uploaded to the instance
    upError,         \* the exception the task ended with ("": none)
    upc              \* position of task_upload_repo

upVars == <<repoFiles, archiveExists, archiveEntries, remoteTar, upError,
            upc>>

\* ----------------- variables of two concurrent task graph runs
VARIABLES
    pRegistry,   \* the module-level registry: names in dict order and dependencies
    pHeap,       \* the dict objects: 0 is registry._tasks, i the copy made for run i
    pRemaining,  \* per run: the dict object its remaining names (-1: none yet)
    pCompleted,  \* per run: completed
    pCtx,        \* per run: exec_client and cgroup_path of its TaskContext
    pState,      \* per run and task: pending, running, ok or failed
    pLayer,      \* per run: the tasks of the layer in flight
    pTimings,    \* per run: the entries of its TimingsCollector
    pSent,       \* per run: the commands sent, with backend and cgroup wrapping
    ppc          \* per run: position of run_task_graph

pairVars == <<pRegistry, pHeap, pRemaining, pCompleted, pCtx, pState,
              pLayer, pTimings, pSent, ppc>>

vars == <<graphVars, manVars, runVars, normVars, execVars, ctxVars, regVars,
          profVars, reqVars, sshVars, crVars, upVars, pairVars>>

\* what the actions of one part of the program leave alone
outsideGraph == <<manVars, runVars, normVars, execVars, ctxVars, regVars,
                  profVars, reqVars, sshVars, crVars, upVars, pairVars>>
outsideManifestRun == <<graphVars, normVars, execVars, ctxVars, regVars,
                        profVars, reqVars, sshVars, crVars, upVars, pairVars>>
outsideNormalize == <<graphVars, manVars, runVars, execVars, ctxVars,
                      regVars, profVars, reqVars, sshVars, crVars, upVars,
                      pairVars>>
outsideExec == <<graphVars, manVars, runVars, normVars, ctxVars, regVars,
                 profVars, reqVars, sshVars, crVars, upVars, pairVars>>
outsideContext == <<graphVars, manVars, runVars, normVars, execVars,
                    regVars, profVars, reqVars, sshVars, crVars, upVars,
                    pairVars>>
outsideRegistry == <<graphVars, manVars, runVars, normVars, execVars,
                     ctxVars, profVars, reqVars, sshVars, crVars, upVars,
                     pairVars>>
outsideProfile == <<graphVars, manVars, runVars, normVars, execVars,
                    ctxVars, regVars, reqVars, sshVars, crVars, upVars,
                    pairVars>>
outsideRequest == <<graphVars, manVars, runVars, normVars, execVars,
                    ctxVars, regVars, profVars, sshVars, crVars, upVars,
                    pairVars>>
outsideSsh == <<graphVars, manVars, runVars, normVars, execVars, ctxVars,
                regVars, profVars, reqVars, crVars, upVars, pairVars>>
outsideCtxRun == <<graphVars, manVars, runVars, normVars, execVars, ctxVars,
                   regVars, profVars, reqVars, sshVars, upVars, pairVars>>
outsideUpload == <<graphVars, manVars, runVars, normVars, execVars, ctxVars,
                   regVars, profVars, reqVars, sshVars, crVars, pairVars>>
outsidePair == <<graphVars, manVars, runVars, normVars, execVars, ctxVars,
                 regVars, profVars, reqVars, sshVars, crVars, upVars>>

\* ---------------------------------------------------------- task registry
\* A registry: the registered names in registration order and, per name, the
\* set of names it depends on. A dependency may name an unregistered task.
TaskIds == 1..NumTasks

\* the names a depends_on tuple may mention: the task names and one name
\* that no registry registers
DepNames == 1..(NumTasks + 1)

EdgeSets(n) ==
    {E \in SUBSET ((1..n) \X DepNames) : Cardinality(E) <= MaxEdges}

MakeRegistry(n, E) ==
    [names |-> [i \in 1..n |-> i],
     deps  |-> [t \in 1..n |-> {d \in DepNames : <<t, d>> \in E}]]

\* A; B and C depend on A; D depends on B and C.
DiamondRegistry ==
    [names |-> <<1, 2, 3, 4>>,
     deps  |-> [t \in 1..4 |->
                  IF t = 1 THEN {} ELSE IF t = 4 THEN {2, 3} ELSE {1}]]

Registries ==
    {MakeRegistry(n, E) : <<n, E>> \in
        UNION {{<<m, F>> : F \in EdgeSets(m)} : m \in 0..NumTasks}}
    \cup {DiamondRegistry}

Registered == Range(registry.names)

\* TaskRegistry.tasks: a copy of the name -> definition map, in dict order.
RegistryTasks == registry.names

\* ------------------------------------------------------------ run_task_graph
\* Variant: a task counts as ready as soon as one of its dependencies is done.
ReadyAny(rem, comp) ==
    SelectSeq(rem, LAMBDA name :
        \/ registry.deps[name] = {}
        \/ registry.deps[name] \cap comp # {})

\* Variant: a task's dependency on itself is not looked at.
ReadyIgnoringSelf(rem, comp) ==
    SelectSeq(rem, LAMBDA name : (registry.deps[name] \ {name}) \subseteq comp)

\* Variant: only the first ready task is taken into the layer.
ReadyFirstOnly(rem, comp) ==
    LET all == SelectSeq(rem, LAMBDA name : registry.deps[name] \subseteq comp)
    IN  IF all = <<>> THEN <<>> ELSE <<Head(all)>>

\* Variant: a dependency on a name that is not registered is not looked at.
ReadyKnownOnly(rem, comp) ==
    SelectSeq(rem, LAMBDA name :
        (registry.deps[name] \cap Registered) \subseteq comp)

\* ready = [name for name, task in remaining.items()
\*          if all(dep in completed for dep in task.dependencies)]
Ready(rem, comp) ==
    SelectSeq(rem, LAMBDA name : registry.deps[name] \subseteq comp)

\* Variant: the error lists every registered task.
UnresolvedAll(rem) == registry.names

\* unresolved = ", ".join(remaining)
Unresolved(rem) == rem

\* for task in tasks_to_run: completed.add(task.name)
CompletedAfter(comp, ran) == comp \cup Range(ran)

\* Variant: only the first task of the layer is removed from remaining.
RemainingAfterFirstOnly(rem, ran) ==
    SelectSeq(rem, LAMBDA name : ran = <<>> \/ name # Head(ran))

\* for task in tasks_to_run: remaining.pop(task.name, None)
RemainingAfter(rem, ran) ==
    SelectSeq(rem, LAMBDA name : name \notin Range(ran))

\* Variant: an add that overwrites the entry a sibling task has just added.
TimingsAddLossy(entries, kind, names) ==
    IF kind = "task" /\ entries # <<>> /\ entries[Len(entries)].kind = "task"
    THEN [entries EXCEPT ![Len(entries)] = [kind |-> kind, names |-> names]]
    ELSE Append(entries, [kind |-> kind, names |-> names])

\* TimingsCollector.add
TimingsAdd(entries, kind, names) ==
    Append(entries, [kind |-> kind, names |-> names])

GraphInit ==
    /\ registry \in Registries
    /\ remaining = RegistryTasks
    /\ completed = {}
    /\ taskState = [t \in Registered |-> "pending"]
    /\ starts = [t \in Registered |-> 0]
    /\ now = 1
    /\ startT = [t \in Registered |-> 0]
    /\ endT = [t \in Registered |-> 0]
    /\ layer = <<>>
    /\ timings = <<>>
    /\ pc = "loop"
    /\ unresolved = <<>>

\* while remaining: ... asyncio.gather(*(_run_task_with_timing(ctx, task) ...))
\* The gather wraps every coroutine of the layer in a task of the event loop.
StartLayer ==
    /\ pc = "loop"
    /\ remaining # <<>>
    /\ Ready(remaining, completed) # <<>>
    /\ layer' = Ready(remaining, completed)
    /\ taskState' = [t \in Registered |->
                       IF t \in Range(layer') THEN "running" ELSE taskState[t]]
    /\ starts' = [t \in Registered |->
                    IF t \in Range(layer') THEN starts[t] + 1 ELSE starts[t]]
    /\ startT' = [t \in Registered |->
                    IF t \in Range(layer') THEN now ELSE startT[t]]
    /\ now' = now + 1
    /\ pc' = "gather"
    /\ UNCHANGED <<outsideGraph, registry, remaining, completed, endT,
                   timings, unresolved>>

\* if not ready: raise RuntimeError(f"Dependency cycle detected: {unresolved}")
RaiseCycle ==
    /\ pc = "loop"
    /\ remaining # <<>>
    /\ Ready(remaining, completed) = <<>>
    /\ unresolved' = Unresolved(remaining)
    /\ pc' = "cycle"
    /\ UNCHANGED <<outsideGraph, registry, remaining, completed,
                   taskState, starts, now, startT, endT, layer, timings>>

\* the while loop ends: remaining is empty
ReturnGraph ==
    /\ pc = "loop"
    /\ remaining = <<>>
    /\ pc' = "returned"
    /\ UNCHANGED <<outsideGraph, registry, remaining, completed,
                   taskState, starts, now, startT, endT, layer, timings,
                   unresolved>>

\* _run_task_with_timing: task.func returned, the task:<name> entry is added
TaskSucceeds(t) ==
    /\ pc \in {"gather", "raised"}
    /\ taskState[t] = "running"
    /\ taskState' = [taskState EXCEPT ![t] = "ok"]
    /\ endT' = [endT EXCEPT ![t] = now]
    /\ now' = now + 1
    /\ timings' = TimingsAdd(timings, "task", <<t>>)
    /\ UNCHANGED <<outsideGraph, registry, remaining, completed, starts,
                   startT, layer, pc, unresolved>>

\* _run_task_with_timing: task.func raised, nothing after the await runs
TaskFails(t) ==
    /\ pc \in {"gather", "raised"}
    /\ taskState[t] = "running"
    /\ taskState' = [taskState EXCEPT ![t] = "failed"]
    /\ endT' = [endT EXCEPT ![t] = now]
    /\ now' = now + 1
    /\ UNCHANGED <<outsideGraph, registry, remaining, completed, starts,
                   startT, layer, timings, pc, unresolved>>

\* the gather returns: every task of the layer finished without an exception
FinishLayer ==
    /\ pc = "gather"
    /\ \A t \in Range(layer) : taskState[t] = "ok"
    /\ timings' = TimingsAdd(timings, "layer", layer)
    /\ completed' = CompletedAfter(completed, layer)
    /\ remaining' = RemainingAfter(remaining, layer)
    /\ layer' = <<>>
    /\ pc' = "loop"
    /\ UNCHANGED <<outsideGraph, registry, taskState, starts, now, startT,
                   endT, unresolved>>

\* the gather (return_exceptions=False) raises the first exception of its
\* children at once; the other children are left running
LayerFails ==
    /\ pc = "gather"
    /\ \E t \in Range(layer) : taskState[t] = "failed"
    /\ pc' = "raised"
    /\ UNCHANGED <<outsideGraph, registry, remaining, completed,
                   taskState, starts, now, startT, endT, layer, timings,
                   unresolved>>

\* main: asyncio.run(provision_and_snapshot(args)) ends with the exception and
\* cancels every task still pending in the event loop before closing it
CloseLoop ==
    /\ pc = "raised"
    /\ taskState' = [t \in Registered |->
                       IF taskState[t] = "running" THEN "cancelled"
                       ELSE taskState[t]]
    /\ pc' = "closed"
    /\ UNCHANGED <<outsideGraph, registry, remaining, completed, starts,
                   now, startT, endT, layer, timings, unresolved>>

GraphNext ==
    \/ StartLayer
    \/ RaiseCycle
    \/ ReturnGraph
    \/ \E t \in Registered : TaskSucceeds(t)
    \/ \E t \in Registered : TaskFails(t)
    \/ FinishLayer
    \/ LayerFails
    \/ CloseLoop

\* the manifest variables while only the scheduler is looked at
ManIdle ==
    /\ args = <<>> /\ clock = 0 /\ manifestFile = <<>> /\ manifest = <<>>
    /\ updates = <<>> /\ loadedManifest = <<>> /\ prevManifest = <<>>
    /\ lastPlan = 0 /\ mpc = "idle"

\* the run variables while the driver is not looked at
RunIdle ==
    /\ phase = <<>> /\ startedInstances = <<>> /\ results = <<>>
    /\ stopped = <<>> /\ ttlSet = <<>> /\ writes = 0

\* the round-trip variables while no round trip is looked at
NormIdle ==
    /\ rawInput = <<>> /\ normalized = <<>> /\ normalizedAgain = <<>>
    /\ written = <<>> /\ reloaded = <<>> /\ nclock = 0 /\ npc = "idle"

\* the exec client variables while no command is run
ExecIdle ==
    /\ client = "" /\ answers = <<>> /\ delays = <<>> /\ attempt = 0
    /\ body = <<>> /\ pending = <<>> /\ stdout_parts = <<>>
    /\ stderr_parts = <<>> /\ exit_code = 0 /\ execResult = <<>>
    /\ warned = FALSE /\ execError = <<>>
    /\ epc = "idle"

\* the task context variables while no task is looked at
ContextIdle ==
    /\ exec_client = FALSE /\ cgroup_path = "" /\ sent = <<>>
    /\ ipc = "idle" /\ upload_attempts = 0 /\ upload_sleeps = <<>>
    /\ steps = <<>> /\ cpc = "idle" /\ apc = "idle" /\ lpc = "idle"
    /\ retries = 0 /\ delay = 0 /\ checks = <<>> /\ sleeps = <<>>
    /\ wpc = "idle"

\* the registration variables while no task is being registered
RegistryIdle ==
    /\ registered = <<>> /\ regOutcome = "idle" /\ regBefore = <<>>

\* the resource profile variables while no profile is built
ProfileIdle ==
    /\ profileArgs = <<>> /\ profile = <<>>

\* the exec request variables while no request is built
RequestIdle ==
    /\ reqArgs = <<>> /\ request = <<>>

\* the SSH exec variables while no command is run over SSH
SshIdle ==
    /\ sshPath = "" /\ sshAttempts = 0 /\ sshLog = <<>> /\ sshSleeps = <<>>
    /\ sshError = "" /\ spc = "idle"

\* the TaskContext.run variables while no single command is followed
CtxRunIdle ==
    /\ crLabel = "" /\ crClient = FALSE /\ crCalls = <<>> /\ crTail = <<>>
    /\ crError = <<>> /\ crpc = "idle"

\* the upload-repo variables while the task is not followed
UploadIdle ==
    /\ repoFiles = <<>> /\ archiveExists = FALSE /\ archiveEntries = <<>>
    /\ remoteTar = FALSE /\ upError = "" /\ upc = "idle"

\* the variables of the two concurrent runs while they are not followed
PairIdle ==
    /\ pRegistry = <<>> /\ pHeap = <<>> /\ pRemaining = <<>> /\ pCompleted = <<>>
    /\ pCtx = <<>> /\ pState = <<>> /\ pLayer = <<>> /\ pTimings = <<>>
    /\ pSent = <<>> /\ ppc = <<>>

GraphStart ==
    GraphInit /\ ManIdle /\ RunIdle /\ NormIdle /\ ExecIdle /\ ContextIdle
        /\ RegistryIdle
        /\ ProfileIdle
        /\ RequestIdle
        /\ SshIdle
        /\ CtxRunIdle
        /\ UploadIdle
        /\ PairIdle

SpecGraph == GraphStart /\ [][GraphNext]_vars

\* ------------------------------------------------- scheduler: derived notions
DepsOf(d) == IF d \in Registered THEN registry.deps[d] ELSE {}

RECURSIVE DepClosure(_, _)
DepClosure(S, n) ==
    IF n = 0 THEN S
    ELSE DepClosure(S \cup UNION {DepsOf(d) : d \in S}, n - 1)

\* every name t depends on, directly or transitively
TransDeps(t) == DepClosure(DepsOf(t), Len(registry.names))

DepsResolve == \A t \in Registered : registry.deps[t] \subseteq Registered
OnCycle == {t \in Registered : t \in TransDeps(t)}
HasCycle == OnCycle # {}
WellFormed == DepsResolve /\ ~HasCycle

MaxOf(S) == CHOOSE x \in S : \A y \in S : y <= x

\* number of tasks on the longest dependency chain ending in t (acyclic only)
RECURSIVE Depth(_)
Depth(t) ==
    IF registry.deps[t] = {} THEN 1
    ELSE 1 + MaxOf({Depth(d) : d \in registry.deps[t]})

LongestChain ==
    IF Registered = {} THEN 0 ELSE MaxOf({Depth(t) : t \in Registered})

NoneFailed == \A t \in Registered : taskState[t] \in {"pending", "running", "ok"}

LayerEntries == SelectSeq(timings, LAMBDA e : e.kind = "layer")
TaskEntries(t) == SelectSeq(timings, LAMBDA e : e.kind = "task" /\ e.names = <<t>>)
TimedTasks == {e.names[1] : e \in {x \in Range(timings) : x.kind = "task"}}

\* ------------------------------------------------------------ scheduler claims
\* C1: for an acyclic registry whose dependencies resolve and whose tasks all
\* succeed, run_task_graph starts every registered task exactly once and then
\* terminates with the pending set empty: no task is ever started twice, the
\* run cannot stop anywhere but at its return while no task has failed, and
\* at the return every task was started once and nothing is pending.
C1_EveryTaskOnce ==
    /\ \A t \in Registered : starts[t] <= 1
    /\ (WellFormed /\ NoneFailed) => (pc = "returned" \/ ENABLED GraphNext)
    /\ pc = "returned" =>
          /\ remaining = <<>>
          /\ \A t \in Registered : starts[t] = 1 /\ taskState[t] = "ok"

C1_Witness ==
    /\ pc = "returned"
    /\ Len(registry.names) >= 3
    /\ \E t \in Registered : registry.deps[t] # {}

\* C2: a task is started only after every task it depends on has finished
\* successfully: start(t) >= end(d) for every dependency d of a started task.
C2_DependencyHonored ==
    \A t \in Registered :
        starts[t] > 0 =>
            \A d \in registry.deps[t] :
                /\ d \in Registered
                /\ taskState[d] = "ok"
                /\ endT[d] > 0
                /\ startT[t] >= endT[d]

C2_Witness ==
    \E t \in Registered :
        /\ taskState[t] = "running"
        /\ Cardinality(registry.deps[t]) >= 2

\* C3 (as claimed): when a task of a layer fails, no task of a later layer is
\* started and the tasks in flight in that layer run to completion, so that
\* once the run is over every started task has returned or raised.
C3_InFlightRunToCompletion ==
    pc = "closed" =>
        /\ \A t \in Registered \ Range(layer) : taskState[t] \in {"pending", "ok"}
        /\ \A t \in Range(layer) : taskState[t] \in {"ok", "failed"}

\* C5: when no task is ready while tasks are pending, the run fails with the
\* dependency-cycle error, which lists exactly the tasks still pending, and no
\* task is started or running from then on.
C5_CycleErrorListsPending ==
    /\ (/\ pc = "loop"
        /\ \E t \in Registered : taskState[t] = "pending"
        /\ \A t \in Registered :
              taskState[t] = "pending" =>
                  \E d \in registry.deps[t] :
                      d \notin Registered \/ taskState[d] # "ok")
       => (ENABLED RaiseCycle /\ ~ENABLED StartLayer)
    /\ pc = "cycle" =>
          /\ unresolved # <<>>
          /\ Range(unresolved) = {t \in Registered : taskState[t] = "pending"}
          /\ Len(unresolved) = Cardinality(Range(unresolved))
          /\ \A t \in Registered : taskState[t] \in {"pending", "ok"}
          /\ ~ENABLED GraphNext

C5_Witness ==
    /\ pc = "cycle"
    /\ \E t \in Registered : taskState[t] = "ok"
    /\ Len(unresolved) >= 2

\* C6 (as claimed): for a registry with a dependency cycle the names listed by
\* the cycle error are exactly the tasks that lie on a cycle.
C6_ListsOnlyTheCycle ==
    (pc = "cycle" /\ DepsResolve /\ HasCycle) => Range(unresolved) = OnCycle

\* the tasks on a cycle and the tasks that depend on one, however indirectly
StuckOnCycle == {t \in Registered : t \in OnCycle \/ TransDeps(t) \cap OnCycle # {}}

\* C6 (amended): for a registry with a dependency cycle, all dependencies
\* registered, the run never returns normally, it cannot stop short of the
\* cycle error while no task has failed, and the error lists exactly the
\* tasks on a cycle together with every task that depends on one of them.
C6_ListsCycleAndDependents ==
    (DepsResolve /\ HasCycle) =>
        /\ pc # "returned"
        /\ NoneFailed => (pc = "cycle" \/ ENABLED GraphNext)
        /\ pc = "cycle" => Range(unresolved) = StuckOnCycle

C6_Witness ==
    /\ pc = "cycle"
    /\ DepsResolve
    /\ HasCycle
    /\ StuckOnCycle # OnCycle
    /\ \E t \in Registered : taskState[t] = "ok"

\* C7: for an acyclic registry whose tasks all succeed, the number of layers
\* equals the number of tasks on the longest dependency chain, the i-th layer
\* is the set of tasks whose longest chain has i tasks, a layer in flight
\* leaves no pending task whose dependencies had all completed, and the
\* diamond runs as [A], [B, C], [D].
C7_LayersFollowLongestChain ==
    /\ (pc = "gather" /\ WellFormed) =>
          \A t \in Registered :
              taskState[t] = "pending" =>
                  ~(registry.deps[t] \subseteq
                      {d \in Registered \ Range(layer) : taskState[d] = "ok"})
    /\ (pc = "returned" /\ WellFormed) =>
          /\ Len(LayerEntries) = LongestChain
          /\ \A i \in 1..Len(LayerEntries) :
                Range(LayerEntries[i].names) = {t \in Registered : Depth(t) = i}
    /\ (pc = "returned" /\ registry = DiamondRegistry) =>
          [i \in 1..Len(LayerEntries) |-> LayerEntries[i].names]
              = <<(<<1>>), <<2, 3>>, (<<4>>)>>

C7_Witness == pc = "returned" /\ registry = DiamondRegistry

\* C8: after a successful run the timings hold exactly one task entry for
\* every registered task, whatever the order in which the tasks of a layer
\* finished; no task ever has two entries, every entry names a registered task
\* that finished, and completed is always a subset of the registered names.
C8_OneTimingPerTask ==
    /\ completed \subseteq Registered
    /\ TimedTasks = {t \in Registered : taskState[t] = "ok"}
    /\ \A t \in Registered : Len(TaskEntries(t)) <= 1
    /\ pc = "returned" => \A t \in Registered : Len(TaskEntries(t)) = 1

C8_Witness ==
    /\ pc = "returned"
    /\ \E i \in 1..Len(timings) :
          /\ i + 2 <= Len(timings)
          /\ timings[i].kind = "task"
          /\ timings[i + 1].kind = "task"
          /\ timings[i + 2].kind = "layer"
          /\ timings[i].names[1] > timings[i + 1].names[1]

\* C9 (as claimed): when A succeeds, B fails and D depends on B, D is never
\* started and the tasks recorded in the timings are exactly A and B.
C9_FailedTaskRecorded ==
    \A a, b, d \in Registered :
        (/\ pc = "closed"
         /\ Registered = {a, b, d}
         /\ Cardinality({a, b, d}) = 3
         /\ registry.deps[a] = {} /\ registry.deps[b] = {} /\ registry.deps[d] = {b}
         /\ taskState[a] = "ok"
         /\ taskState[b] = "failed")
        => (starts[d] = 0 /\ TimedTasks = {a, b})

\* =========================================================== manifest store
\* Largest number of version entries of one preset in the manifest file read
\* at start-up.
MaxFileVersions == 2
\* Largest number of manifest updates applied in one behaviour.
MaxUpdates == 3

CURRENT_MANIFEST_SCHEMA_VERSION == 1

\* _iso_timestamp(): the wall clock, in whole seconds, as a string
IsoTimestamp(c) == "T" \o ToString(c)

\* the second a timestamp of this model stands for
TimestampSeconds(ts) == CHOOSE c \in 0..9 : IsoTimestamp(c) = ts

\* A JSON scalar as json.loads returns it: k is its Python type.
RawInt(n) == [k |-> "int", i |-> n, s |-> ""]
RawStr(x) == [k |-> "str", i |-> 0, s |-> x]
RawNull   == [k |-> "null", i |-> 0, s |-> ""]

\* the decimal literals int() is given in this model
IntLiterals == -1..9
IsIntLiteral(x) == \E n \in IntLiterals : ToString(n) = x
ParseInt(x) == CHOOSE n \in IntLiterals : ToString(n) = x

\* Variant: the default is taken whatever the value.
CoalesceStrAlwaysDefault(value, default) == default

\* _coalesce_str: a non-empty str is kept, anything else gives the default
CoalesceStr(value, default) ==
    IF value.k = "str" /\ value.s # "" THEN value.s ELSE default

\* _coalesce_int: int(value), the default when int() raises
CoalesceInt(value, default) ==
    IF value.k = "int" THEN value.i
    ELSE IF value.k = "str" /\ IsIntLiteral(value.s) THEN ParseInt(value.s)
    ELSE default

\* Variant: the list is left in the order it has.
KeepOrder(entries) == entries

\* list.sort(key=lambda entry: entry["version"]): a stable sort
InsertByVersion(sorted, e) ==
    LET k == Cardinality({i \in 1..Len(sorted) : sorted[i].version <= e.version})
    IN  SubSeq(sorted, 1, k) \o <<e>> \o SubSeq(sorted, k + 1, Len(sorted))

RECURSIVE SortByVersion(_)
SortByVersion(entries) ==
    IF entries = <<>> THEN <<>>
    ELSE InsertByVersion(SortByVersion(SubSeq(entries, 1, Len(entries) - 1)),
                         entries[Len(entries)])

\* _normalize_manifest, inner loop: non-dict entries are dropped, the fields
\* coerced, the list sorted by version
NormalizeVersions(rawVersions, nowTs) ==
    LET dicts == SelectSeq(rawVersions, LAMBDA v : v.dict)
    IN  SortByVersion(
            [i \in 1..Len(dicts) |->
                [version    |-> CoalesceInt(dicts[i].version, 0),
                 snapshotId |-> CoalesceStr(dicts[i].snapshotId, ""),
                 capturedAt |-> CoalesceStr(dicts[i].capturedAt, nowTs)]])

\* _normalize_manifest, outer loop; description "" stands for an absent key
NormalizePresets(rawPresets, nowTs) ==
    LET dicts == SelectSeq(rawPresets, LAMBDA q : q.dict)
    IN  [i \in 1..Len(dicts) |->
            [presetId    |-> CoalesceStr(dicts[i].presetId, ""),
             label       |-> CoalesceStr(dicts[i].label, ""),
             cpu         |-> CoalesceStr(dicts[i].cpu, ""),
             memory      |-> CoalesceStr(dicts[i].memory, ""),
             disk        |-> CoalesceStr(dicts[i].disk, ""),
             versions    |-> NormalizeVersions(dicts[i].versions, nowTs),
             description |-> CoalesceStr(dicts[i].description, "")]]

\* _normalize_manifest; nowTs is what _iso_timestamp() returns during the call
NormalizeManifest(raw, nowTs) ==
    [schemaVersion |-> CoalesceInt(raw.schemaVersion, CURRENT_MANIFEST_SCHEMA_VERSION),
     updatedAt     |-> CoalesceStr(raw.updatedAt, nowTs),
     presets       |-> NormalizePresets(raw.presets, nowTs)]

\* An in-memory manifest seen as the JSON value it is (and as json.dumps
\* writes it): every entry a dict, ints and strs typed, no description key
\* when there is none.
AsJsonVersion(v) ==
    [dict |-> TRUE, version |-> RawInt(v.version),
     snapshotId |-> RawStr(v.snapshotId), capturedAt |-> RawStr(v.capturedAt)]

AsJsonPreset(q) ==
    [dict |-> TRUE, presetId |-> RawStr(q.presetId), label |-> RawStr(q.label),
     cpu |-> RawStr(q.cpu), memory |-> RawStr(q.memory), disk |-> RawStr(q.disk),
     description |-> IF q.description = "" THEN RawNull ELSE RawStr(q.description),
     versions |-> [i \in 1..Len(q.versions) |-> AsJsonVersion(q.versions[i])]]

AsJson(m) ==
    [schemaVersion |-> RawInt(m.schemaVersion), updatedAt |-> RawStr(m.updatedAt),
     presets |-> [i \in 1..Len(m.presets) |-> AsJsonPreset(m.presets[i])]]

\* the file does not exist
NoFile == [exists |-> FALSE, json |-> AsJson([schemaVersion |-> 0, updatedAt |-> "", presets |-> <<>>])]

\* _load_manifest
LoadManifest(file, nowTs) ==
    IF ~file.exists
    THEN [schemaVersion |-> CURRENT_MANIFEST_SCHEMA_VERSION,
          updatedAt |-> nowTs, presets |-> <<>>]
    ELSE NormalizeManifest(file.json, nowTs)

\* Variant: the manifest is dumped as it is given.
WriteAsGiven(raw, nowTs) == [exists |-> TRUE, json |-> raw]

\* _write_manifest, for a manifest dict of any shape
WriteRawManifest(raw, nowTs) ==
    [exists |-> TRUE, json |-> AsJson(NormalizeManifest(raw, nowTs))]

\* _write_manifest, for a manifest the program holds
WriteManifest(m, nowTs) == WriteRawManifest(AsJson(m), nowTs)

\* ------------------------------------------------------------- preset plans
\* parse_args: the defaults of the resource flags
DefaultArgs ==
    [require_verify |-> FALSE,
     standard_vcpus |-> 4, standard_memory |-> 16384, standard_disk_size |-> 49152,
     boosted_vcpus |-> 8, boosted_memory |-> 32768, boosted_disk_size |-> 49152]

Max2(a, b) == IF a >= b THEN a ELSE b

\* _format_cpu_display, _format_memory_display, _format_disk_display
FormatCpuDisplay(vcpus) == ToString(vcpus) \o " vCPU"
FormatMemoryDisplay(memory_mib) == ToString(Max2(memory_mib \div 1024, 1)) \o " GB RAM"
FormatDiskDisplay(disk_size_mib) == ToString(Max2(disk_size_mib \div 1024, 1)) \o " GB SSD"

\* _preset_id_from_resources
PresetIdFromResources(vcpus, memory_mib, disk_size_mib) ==
    ToString(vcpus) \o "vcpu_" \o ToString(Max2(memory_mib \div 1024, 1)) \o "gb_"
        \o ToString(Max2(disk_size_mib \div 1024, 1)) \o "gb"

MakePlan(label, vcpus, memory_mib, disk_size_mib) ==
    [preset_id      |-> PresetIdFromResources(vcpus, memory_mib, disk_size_mib),
     label          |-> label,
     cpu_display    |-> FormatCpuDisplay(vcpus),
     memory_display |-> FormatMemoryDisplay(memory_mib),
     disk_display   |-> FormatDiskDisplay(disk_size_mib),
     vcpus |-> vcpus, memory_mib |-> memory_mib, disk_size_mib |-> disk_size_mib]

\* _build_preset_plans: the standard plan, then the boosted plan
BuildPresetPlans(a) ==
    <<MakePlan("Standard workspace", a.standard_vcpus, a.standard_memory,
               a.standard_disk_size),
      MakePlan("Performance workspace", a.boosted_vcpus, a.boosted_memory,
               a.boosted_disk_size)>>

\* ---------------------------------------------- _update_manifest_with_snapshot
\* Variant: no entry is ever taken to have the id.
FindPresetNever(presets, id) == 0

\* for candidate in updated_manifest["presets"]: the first entry with the id
FindPreset(presets, id) ==
    IF \E i \in 1..Len(presets) : presets[i].presetId = id
    THEN CHOOSE i \in 1..Len(presets) :
            /\ presets[i].presetId = id
            /\ \A j \in 1..(i - 1) : presets[j].presetId # id
    ELSE 0

MaxVersion(versions) ==
    CHOOSE v \in {versions[i].version : i \in 1..Len(versions)} :
        \A i \in 1..Len(versions) : versions[i].version <= v

\* Variant: the next version is the number of versions plus one.
NextVersionByCount(versions) == Len(versions) + 1

\* next_version = 1, or max(entry["version"]) + 1 when there are versions
NextVersion(versions) ==
    IF versions = <<>> THEN 1 ELSE MaxVersion(versions) + 1

\* Variant: the display fields of every entry are refreshed from the plan.
RefreshDisplayAll(presets, found, plan) ==
    [k \in 1..Len(presets) |->
        [presets[k] EXCEPT !.label = plan.label, !.cpu = plan.cpu_display,
                           !.memory = plan.memory_display,
                           !.disk = plan.disk_display]]

\* the else branch: the entry found takes the plan's label and display fields
RefreshDisplay(presets, found, plan) ==
    [presets EXCEPT ![found].label = plan.label,
                    ![found].cpu = plan.cpu_display,
                    ![found].memory = plan.memory_display,
                    ![found].disk = plan.disk_display]

UpdateManifestWithSnapshot(m, plan, snapshot_id, captured_at, nowTs) ==
    LET updated == NormalizeManifest(AsJson(m), nowTs)
        found   == FindPreset(updated.presets, plan.preset_id)
        presets == IF found = 0
                   THEN Append(updated.presets,
                               [presetId |-> plan.preset_id, label |-> plan.label,
                                cpu |-> plan.cpu_display, memory |-> plan.memory_display,
                                disk |-> plan.disk_display, versions |-> <<>>,
                                description |-> ""])
                   ELSE RefreshDisplay(updated.presets, found, plan)
        at      == IF found = 0 THEN Len(presets) ELSE found
        entry   == [version |-> NextVersion(presets[at].versions),
                    snapshotId |-> snapshot_id, capturedAt |-> captured_at]
    IN  [schemaVersion |-> CURRENT_MANIFEST_SCHEMA_VERSION,
         updatedAt     |-> captured_at,
         presets       |-> [presets EXCEPT ![at].versions =
                               SortByVersion(Append(presets[at].versions, entry))]]

\* ------------------------------------------------- manifest: update sequences
\* the version numbers found in the manifest file read at start-up
FileVersionNumbers == {0, 1, 3}

RawVersionLists(maxLen) ==
    LET entries == {[dict |-> TRUE, version |-> RawInt(n),
                     snapshotId |-> RawStr("snapshot_old"),
                     capturedAt |-> RawStr(IsoTimestamp(0))] : n \in FileVersionNumbers}
    IN  UNION {[1..n -> entries] : n \in 0..maxLen}

RawPresetOf(id, versions) ==
    [dict |-> TRUE, presetId |-> RawStr(id), label |-> RawStr("Old label"),
     cpu |-> RawStr("2 vCPU"), memory |-> RawStr("8 GB RAM"),
     disk |-> RawStr("32 GB SSD"), description |-> RawNull, versions |-> versions]

\* the manifest files: absent, or a JSON document with at most one entry per
\* preset id of the plans, in either order, the versions in any order; the
\* first entry carries a description, the second has none
ManifestFiles(a, maxLen) ==
    LET ids    == {BuildPresetPlans(a)[i].preset_id : i \in 1..2}
        orders == {<<>>} \cup {<<x>> : x \in ids}
                    \cup {<<x, y>> : <<x, y>> \in {q \in ids \X ids : q[1] # q[2]}}
        entry(o, vl, i) ==
            IF i = 1
            THEN [RawPresetOf(o[i], vl[i]) EXCEPT
                     !.description = RawStr("Kept note")]
            ELSE RawPresetOf(o[i], vl[i])
        docs   == UNION {{[i \in 1..Len(o) |-> entry(o, vl, i)] :
                             vl \in [1..Len(o) -> RawVersionLists(maxLen)]} :
                         o \in orders}
    IN  {NoFile} \cup
        {[exists |-> TRUE,
          json |-> [schemaVersion |-> RawInt(CURRENT_MANIFEST_SCHEMA_VERSION),
                    updatedAt |-> RawStr(IsoTimestamp(0)), presets |-> d]] : d \in docs}

TotalUpdates == updates[1] + updates[2]

\* the scheduler variables while only the manifest is looked at
GraphIdle ==
    /\ registry = [names |-> <<>>, deps |-> <<>>]
    /\ remaining = <<>> /\ completed = {} /\ taskState = <<>> /\ starts = <<>>
    /\ now = 0 /\ startT = <<>> /\ endT = <<>> /\ layer = <<>> /\ timings = <<>>
    /\ pc = "idle" /\ unresolved = <<>>

\* provision_and_snapshot: manifest = _load_manifest(console)
ManInit ==
    /\ args = DefaultArgs
    /\ manifestFile \in ManifestFiles(args, MaxFileVersions)
    /\ manifest = LoadManifest(manifestFile, IsoTimestamp(1))
    /\ loadedManifest = manifest
    /\ prevManifest = manifest
    /\ clock = 2
    /\ updates = <<0, 0>>
    /\ lastPlan = 0
    /\ mpc = "updating"

\* manifest = _update_manifest_with_snapshot(manifest, result.preset,
\*                result.snapshot.id, result.captured_at)
ManUpdate(i) ==
    /\ mpc = "updating"
    /\ TotalUpdates < MaxUpdates
    /\ manifest' = UpdateManifestWithSnapshot(
                       manifest, BuildPresetPlans(args)[i],
                       "snapshot_" \o ToString(TotalUpdates + 1),
                       IsoTimestamp(clock), IsoTimestamp(clock))
    /\ prevManifest' = manifest
    /\ lastPlan' = i
    /\ updates' = [updates EXCEPT ![i] = @ + 1]
    /\ clock' = clock + 1
    /\ UNCHANGED <<outsideManifestRun, runVars, args, manifestFile, loadedManifest, mpc>>

\* _write_manifest(manifest)
ManWrite ==
    /\ mpc = "updating"
    /\ manifestFile' = WriteManifest(manifest, IsoTimestamp(clock))
    /\ mpc' = "written"
    /\ UNCHANGED <<outsideManifestRun, runVars, args, clock, manifest, updates,
                   loadedManifest, prevManifest, lastPlan>>

ManNext ==
    \/ \E i \in 1..2 : ManUpdate(i)
    \/ ManWrite

ManStart ==
    ManInit /\ GraphIdle /\ RunIdle /\ NormIdle /\ ExecIdle /\ ContextIdle
        /\ RegistryIdle
        /\ ProfileIdle
        /\ RequestIdle
        /\ SshIdle
        /\ CtxRunIdle
        /\ UploadIdle
        /\ PairIdle

SpecManifest == ManStart /\ [][ManNext]_vars

\* -------------------------------------------------------------- manifest claims
PlanId(i) == BuildPresetPlans(args)[i].preset_id

\* the versions of the entry an update for this id works on
VersionsOf(m, id) ==
    IF FindPreset(m.presets, id) = 0 THEN <<>>
    ELSE m.presets[FindPreset(m.presets, id)].versions

VersionNumbers(versions) == [i \in 1..Len(versions) |-> versions[i].version]

\* C10: a preset that had no versions has, after N updates for it, a versions
\* list of length N numbered 1..N; and every update adds one entry whose
\* version is 1 for an empty list and otherwise one more than the largest
\* version present before, hence strictly greater than all of them, and
\* keeps the entries that were there.
C10_MonotonicVersioning ==
    /\ \A i \in 1..2 :
          VersionsOf(loadedManifest, PlanId(i)) = <<>> =>
              VersionNumbers(VersionsOf(manifest, PlanId(i)))
                  = [n \in 1..updates[i] |-> n]
    /\ lastPlan # 0 =>
          LET old == VersionsOf(prevManifest, PlanId(lastPlan))
              new == VersionsOf(manifest, PlanId(lastPlan))
              top == new[Len(new)]
          IN  /\ Len(new) = Len(old) + 1
              /\ SubSeq(new, 1, Len(old)) = old
              /\ \A k \in 1..Len(old) : old[k].version < top.version
              /\ top.version = IF old = <<>> THEN 1
                               ELSE 1 + old[Len(old)].version
              /\ \A k \in 1..Len(old) : old[k].version <= old[Len(old)].version

C10_Witness ==
    /\ VersionsOf(loadedManifest, PlanId(1)) = <<>>
    /\ updates[1] = 2
    /\ lastPlan = 2
    /\ VersionNumbers(VersionsOf(prevManifest, PlanId(2))) = <<0, 3>>

\* C11: an update for one preset keeps the preset entries in their places
\* (a new entry can only be added at the end) and leaves every entry other
\* than the one it works on exactly as it was: presetId, label, cpu, memory,
\* disk, description and versions.
C11_UpdateIsolation ==
    lastPlan # 0 =>
        LET old == prevManifest.presets
            new == manifest.presets
            at  == FindPreset(old, PlanId(lastPlan))
        IN  /\ Len(new) = IF at = 0 THEN Len(old) + 1 ELSE Len(old)
            /\ \A k \in 1..Len(old) :
                  /\ new[k].presetId = old[k].presetId
                  /\ k # at => new[k] = old[k]

\* an update for the standard preset was applied to a manifest whose first
\* entry is the other preset's, with a description and two versions
C11_Witness ==
    /\ lastPlan = 1
    /\ Len(prevManifest.presets) = 2
    /\ FindPreset(prevManifest.presets, PlanId(1)) = 2
    /\ prevManifest.presets[1].description = "Kept note"
    /\ prevManifest.presets[1].label = "Old label"
    /\ Len(prevManifest.presets[1].versions) = 2

SortedVersions(versions) ==
    \A i, j \in 1..Len(versions) :
        i < j => versions[i].version <= versions[j].version

SortedManifest(m) ==
    \A q \in 1..Len(m.presets) : SortedVersions(m.presets[q].versions)

\* the version numbers of a preset entry of the file, as written there
FileVersionNumbersOf(q) ==
    [k \in 1..Len(manifestFile.json.presets[q].versions) |->
        [version |-> manifestFile.json.presets[q].versions[k].version.i]]

\* C13: the manifest _load_manifest returned, every manifest an update
\* returned, and the manifest _write_manifest put in the file all have every
\* preset's versions in ascending order of version, whatever the order in the
\* file that was read.
C13_VersionsSorted ==
    /\ SortedManifest(loadedManifest)
    /\ SortedManifest(prevManifest)
    /\ SortedManifest(manifest)
    /\ mpc = "written" =>
          \A q \in 1..Len(manifestFile.json.presets) :
              SortedVersions(FileVersionNumbersOf(q))

\* the file read had the versions 3, 0 in that order for the updated preset,
\* which now has 0, 3, 4
C13_Witness ==
    /\ mpc = "updating"
    /\ TotalUpdates = 1
    /\ manifestFile.exists
    /\ \E q \in 1..Len(manifestFile.json.presets) :
          /\ manifestFile.json.presets[q].presetId.s = PlanId(lastPlan)
          /\ FileVersionNumbersOf(q) = <<[version |-> 3], [version |-> 0]>>
    /\ VersionNumbers(VersionsOf(manifest, PlanId(lastPlan))) = <<0, 3, 4>>

\* ================================================== provision_and_snapshot
\* the command lines looked at: with and without --require-verify, the default
\* resources, and boosted resources that give the standard preset's id
RunArgs ==
    {[DefaultArgs EXCEPT !.require_verify = v,
                         !.boosted_vcpus = r[1], !.boosted_memory = r[2]] :
        v \in BOOLEAN, r \in {<<8, 32768>>, <<4, 16900>>}}

Presets == 1..2

\* Variant: the external DevTools verification is left out.
PhaseAfterSkippingVerify(ph, require_verify) ==
    CASE ph = "boot"     -> "ready"
      [] ph = "ready"    -> "expose"
      [] ph = "expose"   -> "graph"
      [] ph = "graph"    -> "disk"
      [] ph = "verify"   -> "disk"
      [] ph = "disk"     -> IF require_verify THEN "prompt" ELSE "cleanup"
      [] ph = "prompt"   -> "cleanup"
      [] ph = "cleanup"  -> "snapshot"

\* the awaits of provision_and_snapshot_for_preset, in program order
PhaseAfter(ph, require_verify) ==
    CASE ph = "boot"     -> "ready"
      [] ph = "ready"    -> "expose"
      [] ph = "expose"   -> "graph"
      [] ph = "graph"    -> "verify"
      [] ph = "verify"   -> "disk"
      [] ph = "disk"     -> IF require_verify THEN "prompt" ELSE "cleanup"
      [] ph = "prompt"   -> "cleanup"
      [] ph = "cleanup"  -> "snapshot"

InProgress == {"boot", "ready", "expose", "graph", "verify", "disk", "prompt",
               "cleanup", "snapshot"}

NoResult == [ok |-> FALSE, snapshot_id |-> "", captured_at |-> "", instance_id |-> 0]

\* preset_order = {plan.preset_id: index}: a later plan with the same id wins
PresetOrder(plans, id) ==
    CHOOSE k \in 0..1 :
        /\ plans[k + 1].preset_id = id
        /\ \A j \in (k + 1)..1 : plans[j + 1].preset_id # id

\* Variant: the results are taken in the order of their capture.
OrderedByCapture(plans) ==
    IF TimestampSeconds(results[2].captured_at)
           < TimestampSeconds(results[1].captured_at)
    THEN <<2, 1>> ELSE <<1, 2>>

\* sorted(results, key=...): a stable sort of the gather's results
OrderedResults(plans) ==
    IF PresetOrder(plans, plans[2].preset_id) < PresetOrder(plans, plans[1].preset_id)
    THEN <<2, 1>> ELSE <<1, 2>>

\* inst.set_ttl(ttl_seconds=600, ttl_action="pause")
PostSnapshotTtlSeconds == 600

\* no set_ttl call was made
NoTtl == [attempted |-> FALSE, set |-> FALSE, ttl_seconds |-> 0,
          ttl_action |-> "", writes |-> 0]

\* Variant: the TTLs are set whether or not verification is required.
SetsTtlAlways(require_verify) == TRUE

\* if not args.require_verify: for result in ordered_results: ...
SetsTtl(require_verify) == ~require_verify

\* one pass of the TTL loop: the call is made and either takes effect or
\* raises, which is caught and reported; writes is the number of manifest
\* writes made before the call
TtlCall(ok, writesBefore) ==
    [attempted |-> TRUE, set |-> ok,
     ttl_seconds |-> IF ok THEN PostSnapshotTtlSeconds ELSE 0,
     ttl_action |-> IF ok THEN "pause" ELSE "", writes |-> writesBefore]

RunInit ==
    /\ args \in RunArgs
    /\ manifestFile \in ManifestFiles(args, 1)
    /\ manifest = LoadManifest(manifestFile, IsoTimestamp(1))
    /\ loadedManifest = manifest
    /\ prevManifest = manifest
    /\ clock = 2
    /\ updates = <<0, 0>>
    /\ lastPlan = 0
    /\ mpc = "gather"
    /\ phase = [i \in Presets |-> "boot"]
    /\ startedInstances = <<>>
    /\ results = [i \in Presets |-> NoResult]
    /\ stopped = [i \in Presets |-> 0]
    /\ ttlSet = [i \in Presets |-> NoTtl]
    /\ writes = 0

\* instance = await client.instances.aboot(...); started_instances.append(instance)
Boot(i) ==
    /\ mpc \in {"gather", "raised"}
    /\ phase[i] = "boot"
    /\ phase' = [phase EXCEPT ![i] = "ready"]
    /\ startedInstances' = Append(startedInstances, i)
    /\ UNCHANGED <<outsideManifestRun, manVars, results, stopped, ttlSet, writes>>

\* one of the awaits between the boot and the snapshot returns
Advance(i) ==
    /\ mpc \in {"gather", "raised"}
    /\ phase[i] \in InProgress \ {"boot", "snapshot"}
    /\ phase' = [phase EXCEPT ![i] = PhaseAfter(phase[i], args.require_verify)]
    /\ UNCHANGED <<outsideManifestRun, manVars, startedInstances, results, stopped,
                   ttlSet, writes>>

\* snapshot = await snapshot_instance(...); captured_at = _iso_timestamp();
\* return SnapshotRunResult(...)
Snapshot(i) ==
    /\ mpc \in {"gather", "raised"}
    /\ phase[i] = "snapshot"
    /\ \E passed \in 0..1 :
          /\ clock' = clock + passed
          /\ results' = [results EXCEPT ![i] =
                            [ok |-> TRUE,
                             snapshot_id |-> "snapshot_new" \o ToString(i),
                             captured_at |-> IsoTimestamp(clock'),
                             instance_id |-> i]]
    /\ phase' = [phase EXCEPT ![i] = "done"]
    /\ UNCHANGED <<outsideManifestRun, args, manifestFile, manifest, updates,
                   loadedManifest, prevManifest, lastPlan, mpc,
                   startedInstances, stopped, ttlSet, writes>>

\* the await the preset is at raises
PresetFails(i) ==
    /\ mpc \in {"gather", "raised"}
    /\ phase[i] \in InProgress
    /\ phase' = [phase EXCEPT ![i] = "failed"]
    /\ UNCHANGED <<outsideManifestRun, manVars, startedInstances, results, stopped,
                   ttlSet, writes>>

\* results = await asyncio.gather(*tasks) returns; then, without a further
\* await: the TTLs (each set_ttl may raise, which is caught), the manifest
\* updates in the order of ordered_results, and _write_manifest
RecordResults ==
    /\ mpc = "gather"
    /\ \A i \in Presets : phase[i] = "done"
    /\ \E ttlOk \in [Presets -> BOOLEAN] :
          ttlSet' = [i \in Presets |->
                       IF SetsTtl(args.require_verify)
                       THEN TtlCall(ttlOk[i], writes) ELSE NoTtl]
    /\ LET plans == BuildPresetPlans(args)
           order == OrderedResults(plans)
           first == UpdateManifestWithSnapshot(
                        manifest, plans[order[1]], results[order[1]].snapshot_id,
                        results[order[1]].captured_at, IsoTimestamp(clock))
           both  == UpdateManifestWithSnapshot(
                        first, plans[order[2]], results[order[2]].snapshot_id,
                        results[order[2]].captured_at, IsoTimestamp(clock))
       IN  /\ manifest' = both
           /\ prevManifest' = first
           /\ lastPlan' = order[2]
           /\ manifestFile' = WriteManifest(both, IsoTimestamp(clock))
    /\ updates' = <<1, 1>>
    /\ writes' = writes + 1
    /\ mpc' = "done"
    /\ UNCHANGED <<outsideManifestRun, args, clock, loadedManifest, phase,
                   startedInstances, results, stopped>>

\* results = await asyncio.gather(*tasks) raises the first exception of a
\* preset run; nothing catches it in provision_and_snapshot
GatherRaises ==
    /\ mpc = "gather"
    /\ \E i \in Presets : phase[i] = "failed"
    /\ mpc' = "raised"
    /\ UNCHANGED <<outsideManifestRun, args, clock, manifestFile, manifest, updates,
                   loadedManifest, prevManifest, lastPlan, runVars>>

\* main: asyncio.run(...) ends with the exception and cancels the preset runs
\* still in progress before it closes the event loop
CancelPending ==
    /\ mpc = "raised"
    /\ phase' = [i \in Presets |->
                   IF phase[i] \in InProgress THEN "cancelled" ELSE phase[i]]
    /\ mpc' = "closed"
    /\ UNCHANGED <<outsideManifestRun, args, clock, manifestFile, manifest, updates,
                   loadedManifest, prevManifest, lastPlan, startedInstances,
                   results, stopped, ttlSet, writes>>

\* _cleanup, registered with atexit: with --require-verify every instance of
\* started_instances is popped and stopped
Cleanup ==
    /\ mpc \in {"done", "closed"}
    /\ IF args.require_verify
       THEN /\ stopped' = [i \in Presets |->
                             stopped[i] + Cardinality(
                                 {k \in 1..Len(startedInstances) :
                                     startedInstances[k] = i})]
            /\ startedInstances' = <<>>
       ELSE UNCHANGED <<stopped, startedInstances>>
    /\ mpc' = "exited"
    /\ UNCHANGED <<outsideManifestRun, args, clock, manifestFile, manifest, updates,
                   loadedManifest, prevManifest, lastPlan, phase, results,
                   ttlSet, writes>>

RunNext ==
    \/ \E i \in Presets : Boot(i)
    \/ \E i \in Presets : Advance(i)
    \/ \E i \in Presets : Snapshot(i)
    \/ \E i \in Presets : PresetFails(i)
    \/ RecordResults
    \/ GatherRaises
    \/ CancelPending
    \/ Cleanup

RunStart ==
    RunInit /\ GraphIdle /\ NormIdle /\ ExecIdle /\ ContextIdle /\ RegistryIdle
        /\ ProfileIdle
        /\ RequestIdle
        /\ SshIdle
        /\ CtxRunIdle
        /\ UploadIdle
        /\ PairIdle

SpecRun == RunStart /\ [][RunNext]_vars

\* ------------------------------------------------------------------ run claims
\* the snapshot ids of the version entries the manifest file holds
FileSnapshotIds ==
    IF ~manifestFile.exists THEN {}
    ELSE UNION {{manifestFile.json.presets[q].versions[k].snapshotId.s :
                    k \in 1..Len(manifestFile.json.presets[q].versions)} :
                q \in 1..Len(manifestFile.json.presets)}

\* C4 (as claimed): when one preset run fails, the sibling run is not
\* terminated, and once the program is over the manifest file holds a new
\* version entry for every preset whose run returned a snapshot and none for
\* a preset that failed.
C4_SiblingResultRecorded ==
    (mpc = "exited" /\ \E i \in Presets : phase[i] = "failed") =>
        \A j \in Presets :
            /\ phase[j] # "cancelled"
            /\ phase[j] = "done" => results[j].snapshot_id \in FileSnapshotIds
            /\ phase[j] = "failed" =>
                  ("snapshot_new" \o ToString(j)) \notin FileSnapshotIds

\* the capturedAt of every version entry of a manifest, in seconds
CaptureSeconds(m) ==
    UNION {{TimestampSeconds(m.presets[q].versions[k].capturedAt) :
               k \in 1..Len(m.presets[q].versions)} :
           q \in 1..Len(m.presets)}

\* C12 (as claimed): once the results of a run are recorded, the manifest's
\* updatedAt is the most recent capturedAt among all its version entries, in
\* whatever order the two preset runs took their snapshots.
C12_UpdatedAtIsLatestCapture ==
    (mpc \in {"done", "exited"} /\ writes = 1) =>
        \A c \in CaptureSeconds(manifest) :
            c <= TimestampSeconds(manifest.updatedAt)

\* C16: the manifest file is written at most once in a run and only when
\* every preset run has returned its result (until then the file holds no
\* new snapshot); the manifest written is the loaded manifest with the
\* standard preset's update applied first and the boosted preset's update
\* applied to its outcome, whichever run took its snapshot first.
C16_WrittenOnceInDeclarationOrder ==
    /\ writes <= 1
    /\ writes = 1 => \A i \in Presets : phase[i] = "done" /\ results[i].ok
    /\ writes = 0 => FileSnapshotIds \subseteq {"snapshot_old"}
    /\ (mpc = "done" \/ writes = 1) =>
          LET plans == BuildPresetPlans(args)
              first == UpdateManifestWithSnapshot(
                           loadedManifest, plans[1], results[1].snapshot_id,
                           results[1].captured_at, IsoTimestamp(clock))
              both  == UpdateManifestWithSnapshot(
                           first, plans[2], results[2].snapshot_id,
                           results[2].captured_at, IsoTimestamp(clock))
          IN  /\ writes = 1
              /\ prevManifest = first
              /\ manifest = both
              /\ manifestFile = [exists |-> TRUE, json |-> AsJson(both)]

\* both presets have the same id, and the boosted run took its snapshot a
\* second before the standard run
C16_Witness ==
    /\ mpc = "done"
    /\ PlanId(1) = PlanId(2)
    /\ TimestampSeconds(results[2].captured_at)
           < TimestampSeconds(results[1].captured_at)

\* the position of an await in provision_and_snapshot_for_preset
PhaseRank(ph) ==
    CASE ph = "boot"     -> 1
      [] ph = "ready"    -> 2
      [] ph = "expose"   -> 3
      [] ph = "graph"    -> 4
      [] ph = "verify"   -> 5
      [] ph = "disk"     -> 6
      [] ph = "prompt"   -> 7
      [] ph = "cleanup"  -> 8
      [] ph = "snapshot" -> 9

\* the phases the claim names
NamedPhases == {"boot", "ready", "expose", "graph", "verify", "snapshot"}

\* C17: a preset run enters its phases in the order boot, ready-wait,
\* port-expose, task graph, external verification, snapshot, without leaving
\* one of them out; a run that failed, was cancelled or returned enters no
\* further phase; a result with a snapshot appears only as the outcome of the
\* snapshot phase, and a failed run never has one.
C17_PhasesSerial ==
    [][\A i \in Presets :
          /\ (phase'[i] # phase[i] /\ phase'[i] \in InProgress) =>
                /\ phase[i] \in InProgress
                /\ PhaseRank(phase[i]) < PhaseRank(phase'[i])
                /\ \A ph \in NamedPhases :
                      ~(PhaseRank(phase[i]) < PhaseRank(ph)
                            /\ PhaseRank(ph) < PhaseRank(phase'[i]))
          /\ phase[i] \notin InProgress => phase'[i] = phase[i]
          /\ (results'[i].ok /\ ~results[i].ok) =>
                phase[i] = "snapshot" /\ phase'[i] = "done"
          /\ phase'[i] = "failed" => ~results'[i].ok]_vars

\* one run went through every phase and returned its snapshot, the other
\* failed in the external verification
C17_Witness ==
    /\ phase[1] = "done" /\ results[1].ok
    /\ phase[2] = "failed" /\ ~results[2].ok
    /\ mpc = "raised"

\* ============================================ manifest: normalize, write, load
\* Largest number of preset entries of a generated manifest dict.
MaxRawPresets == 1
\* Largest number of version entries of one preset of a generated manifest dict.
MaxRawVersions == 2

\* a list entry that is not a dict (a number, a string, null, a list)
NotADictVersion ==
    [dict |-> FALSE, version |-> RawNull, snapshotId |-> RawNull,
     capturedAt |-> RawNull]

\* version entries: a well-typed one whose version is a numeric string, one
\* with every field missing, and a non-dict
RawVersionEntries ==
    {[dict |-> TRUE, version |-> RawStr("3"), snapshotId |-> RawStr("snap_a"),
      capturedAt |-> RawStr(IsoTimestamp(0))],
     [dict |-> TRUE, version |-> RawNull, snapshotId |-> RawNull,
      capturedAt |-> RawNull],
     NotADictVersion}

RawVersionListsOf(maxLen) ==
    UNION {[1..n -> RawVersionEntries] : n \in 0..maxLen}

\* preset entries: a well-typed one with a description, one with missing,
\* empty and ill-typed fields, and a non-dict
RawPresetEntries(maxVersions) ==
    {[dict |-> TRUE, presetId |-> RawStr("4vcpu_16gb_48gb"),
      label |-> RawStr("Standard workspace"), cpu |-> RawStr("4 vCPU"),
      memory |-> RawStr("16 GB RAM"), disk |-> RawStr("48 GB SSD"),
      description |-> RawStr("Kept note"), versions |-> vl] :
        vl \in RawVersionListsOf(maxVersions)}
    \cup
    {[dict |-> TRUE, presetId |-> RawNull, label |-> RawInt(7),
      cpu |-> RawStr(""), memory |-> RawNull, disk |-> RawInt(48),
      description |-> RawStr(""), versions |-> vl] :
        vl \in RawVersionListsOf(maxVersions)}
    \cup
    {[dict |-> FALSE, presetId |-> RawNull, label |-> RawNull,
      cpu |-> RawNull, memory |-> RawNull, disk |-> RawNull,
      description |-> RawNull, versions |-> <<>>]}

\* manifest dicts: schemaVersion and updatedAt well-typed, coercible, missing
\* or empty
RawManifests(maxPresets, maxVersions) ==
    {[schemaVersion |-> top[1], updatedAt |-> top[2], presets |-> pl] :
        top \in {<<RawInt(CURRENT_MANIFEST_SCHEMA_VERSION),
                    RawStr(IsoTimestamp(0))>>,
                  <<RawStr("2"), RawNull>>,
                  <<RawNull, RawStr("")>>},
        pl \in UNION {[1..n -> RawPresetEntries(maxVersions)] :
                         n \in 0..maxPresets}}

NoManifest == [schemaVersion |-> 0, updatedAt |-> "", presets |-> <<>>]

NormInit ==
    /\ rawInput \in RawManifests(MaxRawPresets, MaxRawVersions)
    /\ normalized = NoManifest
    /\ normalizedAgain = NoManifest
    /\ written = NoFile
    /\ reloaded = NoManifest
    /\ nclock = 1
    /\ npc = "start"

\* y = _normalize_manifest(x)
NormalizeOnce ==
    /\ npc = "start"
    /\ normalized' = NormalizeManifest(rawInput, IsoTimestamp(nclock))
    /\ nclock' = nclock + 1
    /\ npc' = "normalized"
    /\ UNCHANGED <<outsideNormalize, rawInput,
                   normalizedAgain, written, reloaded>>

\* _normalize_manifest(y), a second later
NormalizeTwice ==
    /\ npc = "normalized"
    /\ normalizedAgain' =
           NormalizeManifest(AsJson(normalized), IsoTimestamp(nclock))
    /\ nclock' = nclock + 1
    /\ npc' = "normalizedAgain"
    /\ UNCHANGED <<outsideNormalize, rawInput,
                   normalized, written, reloaded>>

\* _write_manifest(x): manifest_to_write = _normalize_manifest(x) is dumped
NormWrite ==
    /\ npc = "start"
    /\ normalized' = NormalizeManifest(rawInput, IsoTimestamp(nclock))
    /\ written' = WriteRawManifest(rawInput, IsoTimestamp(nclock))
    /\ nclock' = nclock + 1
    /\ npc' = "written"
    /\ UNCHANGED <<outsideNormalize, rawInput,
                   normalizedAgain, reloaded>>

\* _load_manifest(console), a second later
NormLoad ==
    /\ npc = "written"
    /\ reloaded' = LoadManifest(written, IsoTimestamp(nclock))
    /\ nclock' = nclock + 1
    /\ npc' = "reloaded"
    /\ UNCHANGED <<outsideNormalize, rawInput,
                   normalized, normalizedAgain, written>>

NormNext ==
    \/ NormalizeOnce
    \/ NormalizeTwice
    \/ NormWrite
    \/ NormLoad

NormStart ==
    NormInit /\ GraphIdle /\ ManIdle /\ RunIdle /\ ExecIdle /\ ContextIdle
        /\ RegistryIdle
        /\ ProfileIdle
        /\ RequestIdle
        /\ SshIdle
        /\ CtxRunIdle
        /\ UploadIdle
        /\ PairIdle

SpecNormalize == NormStart /\ [][NormNext]_vars

\* the input has a field that normalization fills in from the clock, an
\* entry it drops and versions it has to reorder
NeedsNormalizing(raw) ==
    /\ raw.updatedAt.k # "str"
    /\ \E q \in 1..Len(raw.presets) :
          /\ raw.presets[q].dict
          /\ raw.presets[q].presetId.k # "str"
          /\ Len(raw.presets[q].versions) = 2
          /\ raw.presets[q].versions[1].version = RawStr("3")
          /\ raw.presets[q].versions[2].version = RawNull

C15_WriteLoadRoundTrip ==
    npc = "reloaded" => reloaded = normalized

C15_Witness ==
    /\ npc = "reloaded"
    /\ NeedsNormalizing(rawInput)
    /\ written.exists
    /\ reloaded.updatedAt = IsoTimestamp(1)

\* ================================================== HttpExecClient._run_sync
\* Largest number of lines in the body of a 200 response.
MaxBodyLines == 3

\* snapshot.py defines its own HttpExecClient, the one TaskContext uses;
\* snapshot/exec.py defines the client of the snapshot package.
Clients == {"snapshot.py", "snapshot/exec.py"}

\* Variant: client errors count as transient too.
TransientWithClientErrors == {400, 502, 503, 504}

TRANSIENT_HTTP_CODES == {502, 503, 504}

\* _run_sync: the defaults of max_retries and initial_delay (seconds)
max_retries == 3
initial_delay == 1

\* what urlopen can meet: an HTTP status, or no HTTP answer at all
HttpStatus(code) == [kind |-> "http", code |-> code]
URLError == [kind |-> "urlerror", code |-> 0]
ServerAnswers == {HttpStatus(c) : c \in {200, 204, 400, 502, 503, 504}}
                    \cup {URLError}

\* urlopen raises urllib.error.HTTPError for a 4xx or 5xx status
IsHTTPError(a) == a.kind = "http" /\ a.code >= 400

\* a JSON number with a fraction as json.loads returns it: i is what int()
\* makes of the float, s what str() makes of it
RawFloat(i, s) == [k |-> "float", i |-> i, s |-> s]

\* The lines of a response body. type is the frame's "type"; "invalid" is a
\* line that is not JSON, "blank" an empty line and "unknown" a JSON object
\* of another type; data is the frame's data or message, or the text of the
\* line; code is the JSON value of the frame's "code".
Frame(type, data, code) ==
    [type |-> type, data |-> data, code |-> RawInt(code)]

\* an exit frame whose "code" is any JSON scalar
ExitFrame(raw) == [type |-> "exit", data |-> "", code |-> raw]

BodyLines ==
    {Frame("stdout", "a", 0), Frame("stdout", "b", 0), Frame("stderr", "x", 0),
     Frame("exit", "", 0), Frame("exit", "", 3), Frame("error", "boom", 0),
     Frame("invalid", "garbage", 0), Frame("blank", "", 0),
     Frame("unknown", "mystery", 0),
     ExitFrame(RawStr("0")), ExitFrame(RawNull),
     ExitFrame(RawFloat(0, "0.5"))}

Bodies == UNION {[1..n -> BodyLines] : n \in 0..MaxBodyLines}

\* Variant: a part is put in front of the parts collected so far.
PrependPart(parts, data) == <<data>> \o parts

\* stdout_parts.append(...), stderr_parts.append(...)
AppendPart(parts, data) == Append(parts, data)

\* "".join(parts)
RECURSIVE JoinParts(_)
JoinParts(parts) ==
    IF parts = <<>> THEN "" ELSE Head(parts) \o JoinParts(Tail(parts))

NoExecResult == [exit_code |-> 0, stdout |-> "", stderr |-> ""]

\* str(event.get("code", 0))
PyStr(raw) ==
    CASE raw.k = "int" -> ToString(raw.i)
      [] raw.k = "null" -> "None"
      [] OTHER -> raw.s

\* the exit frame's code: snapshot.py converts it with int(code), exec.py
\* with int(str(code)); a TypeError or ValueError gives 1
ParseExitCode(cl, raw) ==
    IF cl = "snapshot.py"
    THEN CASE raw.k \in {"int", "float"} -> raw.i
           [] raw.k = "str" /\ IsIntLiteral(raw.s) -> ParseInt(raw.s)
           [] OTHER -> 1
    ELSE IF IsIntLiteral(PyStr(raw)) THEN ParseInt(PyStr(raw)) ELSE 1

\* Variant: the stream is given up at a line that is no known frame.
StopAtBadLine(line, rest) ==
    IF line.type \in {"invalid", "unknown"} THEN <<>> ELSE Tail(rest)

\* for raw_line in response: after a line, whatever it was (each branch ends
\* the iteration, the bad ones included), the next line is read
AfterLine(line, rest) == Tail(rest)

\* Variant: the first exit frame's code is kept.
KeepFirstExitCode(current, parsed) ==
    IF current = <<>> THEN <<parsed>> ELSE current

\* exit_code = int(...): the assignment replaces an earlier exit code
AssignExitCode(current, parsed) == <<parsed>>

\* Variant: a stream without an exit frame counts as a failure.
ExitCodeOrFailure(code) == IF code = <<>> THEN 1 ELSE code[1]

\* if exit_code is None: exit_code = 0
ExitCodeOrDefault(code) == IF code = <<>> THEN 0 ELSE code[1]

ExecInit ==
    /\ client \in Clients
    /\ answers = <<>>
    /\ delays = <<>>
    /\ attempt = 0
    /\ body = <<>>
    /\ pending = <<>>
    /\ stdout_parts = <<>>
    /\ stderr_parts = <<>>
    /\ exit_code = <<>>
    /\ execResult = NoExecResult
    /\ warned = FALSE
    /\ execError = NoExecResult
    /\ epc = "request"

\* urlopen returns a response whose status is 200: the body is read next
PostAccepted ==
    /\ epc = "request"
    /\ answers' = Append(answers, HttpStatus(200))
    /\ body' \in Bodies
    /\ pending' = body'
    /\ epc' = "stream"
    /\ UNCHANGED <<outsideExec, client, delays,
                   attempt, stdout_parts, stderr_parts, exit_code, execResult,
                   warned, execError>>

\* urlopen returns a response whose status is not 200:
\* raise RuntimeError("exec service returned status ...")
PostOtherStatus ==
    /\ epc = "request"
    /\ \E a \in ServerAnswers :
          /\ a.kind = "http" /\ ~IsHTTPError(a) /\ a.code # 200
          /\ answers' = Append(answers, a)
    /\ epc' = "raised_status"
    /\ UNCHANGED <<outsideExec, client, delays,
                   attempt, body, pending, stdout_parts, stderr_parts,
                   exit_code, execResult, warned, execError>>

\* exec.py: except HTTPError with a transient code before the last attempt:
\* time.sleep(initial_delay * 2**attempt); continue
PostRetried ==
    /\ epc = "request"
    /\ client = "snapshot/exec.py"
    /\ \E a \in ServerAnswers :
          /\ IsHTTPError(a)
          /\ a.code \in TRANSIENT_HTTP_CODES
          /\ attempt < max_retries - 1
          /\ answers' = Append(answers, a)
    /\ delays' = Append(delays, initial_delay * 2^attempt)
    /\ attempt' = attempt + 1
    /\ UNCHANGED <<outsideExec, client, body,
                   pending, stdout_parts, stderr_parts, exit_code, execResult,
                   warned, execError, epc>>

\* raise RuntimeError("exec service request failed: ..."): in snapshot.py for
\* every URLError (HTTPError is one); in exec.py for an HTTPError that is not
\* retried and for every other URLError
PostFailed ==
    /\ epc = "request"
    /\ \E a \in ServerAnswers :
          /\ IsHTTPError(a) \/ a = URLError
          /\ \/ client = "snapshot.py"
             \/ a = URLError
             \/ ~(a.code \in TRANSIENT_HTTP_CODES /\ attempt < max_retries - 1)
          /\ answers' = Append(answers, a)
    /\ epc' = "raised_request"
    /\ UNCHANGED <<outsideExec, client, delays,
                   attempt, body, pending, stdout_parts, stderr_parts,
                   exit_code, execResult, warned, execError>>

\* for raw_line in response: one line of the body
ReadLine ==
    /\ epc = "stream"
    /\ pending # <<>>
    /\ LET line == Head(pending)
       IN  /\ stdout_parts' =
                 IF line.type = "stdout"
                 THEN AppendPart(stdout_parts, line.data) ELSE stdout_parts
           /\ stderr_parts' =
                 CASE line.type \in {"stderr", "error"} ->
                          AppendPart(stderr_parts, line.data)
                   [] line.type = "invalid" ->
                          AppendPart(stderr_parts,
                                     "invalid exec response: " \o line.data)
                   [] line.type = "unknown" ->
                          AppendPart(stderr_parts,
                                     "unknown event type: " \o line.data)
                   [] OTHER -> stderr_parts
           /\ exit_code' =
                 IF line.type = "exit"
                 THEN AssignExitCode(exit_code,
                                     ParseExitCode(client, line.code))
                 ELSE exit_code
           /\ pending' = AfterLine(line, pending)
    /\ UNCHANGED <<outsideExec, client, answers,
                   delays, attempt, body, execResult, warned, execError, epc>>

\* the body is exhausted: the parts are joined; a missing exit code is
\* warned about and counts as 0; a non-zero exit code raises a RuntimeError
\* made of the code, stdout and stderr, otherwise the response is returned
FinishStream ==
    /\ epc = "stream"
    /\ pending = <<>>
    /\ warned' = (exit_code = <<>>)
    /\ LET code == ExitCodeOrDefault(exit_code)
           outcome == [exit_code |-> code,
                       stdout |-> JoinParts(stdout_parts),
                       stderr |-> JoinParts(stderr_parts)]
       IN  IF code # 0
           THEN /\ epc' = "raised_exit"
                /\ execError' = outcome
                /\ UNCHANGED execResult
           ELSE /\ epc' = "returned"
                /\ execResult' = outcome
                /\ UNCHANGED execError
    /\ UNCHANGED <<outsideExec, client, answers,
                   delays, attempt, body, pending, stdout_parts, stderr_parts,
                   exit_code>>

ExecNext ==
    \/ PostAccepted
    \/ PostOtherStatus
    \/ PostRetried
    \/ PostFailed
    \/ ReadLine
    \/ FinishStream

ExecStart ==
    ExecInit /\ GraphIdle /\ ManIdle /\ RunIdle /\ NormIdle /\ ContextIdle
        /\ RegistryIdle
        /\ ProfileIdle
        /\ RequestIdle
        /\ SshIdle
        /\ CtxRunIdle
        /\ UploadIdle
        /\ PairIdle

SpecExec == ExecStart /\ [][ExecNext]_vars

\* ------------------------------------------------------- exec client claims
\* the POST that got answers[k] was followed by a sleep and another POST
Retried(k) == k < Len(answers) \/ (k = Len(answers) /\ epc = "request")

\* C18 (as claimed): a POST answered with 502, 503 or 504 is retried after a
\* sleep of initial_delay * 2^attempt seconds as long as fewer than three
\* POSTs were made, so that a server answering 503, 503, 200 is read after
\* sleeps of 1 s and 2 s; a third transient answer fails the run, and there
\* is never a fourth POST.
C18_TransientRetried ==
    /\ Len(answers) <= 3
    /\ \A k \in 1..Len(answers) :
          (answers[k].code \in {502, 503, 504} /\ k < 3) =>
              /\ Retried(k)
              /\ Len(delays) >= k
              /\ delays[k] = 2^(k - 1)
    /\ (Len(answers) = 3 /\ answers[3].code \in {502, 503, 504}) =>
          epc = "raised_request"
    /\ (answers = <<HttpStatus(503), HttpStatus(503), HttpStatus(200)>>) =>
          delays = <<1, 2>> /\ epc \in {"stream", "returned", "raised_exit"}

\* C19: an answer with an HTTP error status that is not 502, 503 or 504, or a
\* request that got no HTTP answer, fails the run at once: no POST follows
\* it and no sleep is made for it; when it is the first answer there was no
\* sleep at all.
C19_NonTransientFailsAtOnce ==
    \A k \in 1..Len(answers) :
        ((answers[k].kind = "http" /\ answers[k].code >= 400
                 /\ answers[k].code \notin {502, 503, 504})
             \/ answers[k].kind = "urlerror") =>
            /\ k = Len(answers)
            /\ epc = "raised_request"
            /\ Len(delays) = k - 1

\* the client of exec.py got a 400 on its first POST
C19_Witness ==
    /\ client = "snapshot/exec.py"
    /\ answers = <<HttpStatus(400)>>
    /\ delays = <<>>
    /\ epc = "raised_request"

\* the data of the frames of one type, joined in the order of the body
RECURSIVE DataOf(_, _)
DataOf(lines, type) ==
    IF lines = <<>> THEN ""
    ELSE (IF lines[1].type = type THEN lines[1].data ELSE "")
             \o DataOf(Tail(lines), type)

\* stdout and stderr frames in any order, then one exit frame with code 0
FramesThenExitZero(lines) ==
    /\ lines # <<>>
    /\ lines[Len(lines)] = Frame("exit", "", 0)
    /\ \A k \in 1..(Len(lines) - 1) : lines[k].type \in {"stdout", "stderr"}

\* C20: for a body of stdout and stderr frames in any order followed by one
\* exit frame with code 0, the run returns, with exit code 0, the data of the
\* stdout frames joined in arrival order as stdout and the data of the
\* stderr frames joined in arrival order as stderr.
C20_FramesJoinedInArrivalOrder ==
    (FramesThenExitZero(body) /\ epc \notin {"request", "stream"}) =>
        /\ epc = "returned"
        /\ execResult.exit_code = 0
        /\ execResult.stdout = DataOf(body, "stdout")
        /\ execResult.stderr = DataOf(body, "stderr")

C20_Witness ==
    /\ epc = "returned"
    /\ body = <<Frame("stdout", "b", 0), Frame("stderr", "x", 0),
                Frame("exit", "", 0)>>
    /\ execResult = [exit_code |-> 0, stdout |-> "b", stderr |-> "x"]

\* _run_sync read the whole body and returned or raised for its exit code
StreamEnded == epc \in {"returned", "raised_exit"}

NoExitFrame(lines) == \A k \in 1..Len(lines) : lines[k].type # "exit"

\* C21: when the body of a 200 response holds no exit frame, whatever its
\* other lines are, the run returns a response with exit code 0 and the
\* warning that no exit code was reported has been written.
C21_MissingExitIsSuccess ==
    (StreamEnded /\ NoExitFrame(body)) =>
        /\ epc = "returned"
        /\ execResult.exit_code = 0
        /\ warned

C21_Witness ==
    /\ epc = "returned"
    /\ body = <<Frame("stdout", "a", 0), Frame("error", "boom", 0),
                Frame("stderr", "x", 0)>>
    /\ warned
    /\ execResult = [exit_code |-> 0, stdout |-> "a", stderr |-> "boomx"]

ExitFrames(lines) == SelectSeq(lines, LAMBDA l : l.type = "exit")

\* the code of an exit frame read as an integer: the JSON integer, or the
\* integer a JSON string spells; 1 for anything else
IntegerCode(raw) ==
    CASE raw.k = "int" -> raw.i
      [] raw.k = "str" /\ IsIntLiteral(raw.s) -> ParseInt(raw.s)
      [] OTHER -> 1

\* C22 (as claimed): a run never returns a response whose exit code is not
\* 0; when the body holds one exit frame, the run returns only if the
\* frame's code is the integer 0, and otherwise (a non-zero code, or a code
\* that is no integer and so counts as 1) raises an error carrying that
\* code and the joined stdout and stderr.
C22_NonZeroExitRaises ==
    /\ epc = "returned" => execResult.exit_code = 0
    /\ (StreamEnded /\ Len(ExitFrames(body)) = 1) =>
          LET code == IntegerCode(ExitFrames(body)[1].code)
          IN  IF code = 0
              THEN epc = "returned"
              ELSE /\ epc = "raised_exit"
                   /\ execError = [exit_code |-> code,
                                   stdout |-> JoinParts(stdout_parts),
                                   stderr |-> JoinParts(stderr_parts)]

IsBadLine(l) == l.type \in {"invalid", "unknown"}

\* what a bad line leaves in the stderr buffer
NoiseOf(l) ==
    IF l.type = "invalid" THEN "invalid exec response: " \o l.data
    ELSE "unknown event type: " \o l.data

\* the exit code a client has after reading lines: that of the last exit
\* frame, none without an exit frame
ExitCodeAfter(cl, lines) ==
    LET e == ExitFrames(lines)
    IN  IF e = <<>> THEN <<>> ELSE <<ParseExitCode(cl, e[Len(e)].code)>>

\* C23: when the body holds lines that are not JSON or whose type is
\* unknown, each of them is recorded in the stderr buffer, every frame of
\* the body is still processed (the stdout data is that of all stdout
\* frames, the stderr buffer has one part per stderr, error and bad line),
\* and the exit code and outcome are those of the body without the bad
\* lines.
C23_BadLinesSkipped ==
    (StreamEnded /\ \E k \in 1..Len(body) : IsBadLine(body[k])) =>
        /\ \A k \in 1..Len(body) :
              IsBadLine(body[k]) => NoiseOf(body[k]) \in Range(stderr_parts)
        /\ JoinParts(stdout_parts) = DataOf(body, "stdout")
        /\ Len(stderr_parts) =
              Cardinality({k \in 1..Len(body) :
                  body[k].type \in {"stderr", "error", "invalid", "unknown"}})
        /\ exit_code =
              ExitCodeAfter(client, SelectSeq(body, LAMBDA l : ~IsBadLine(l)))
        /\ (epc = "returned") <=> (exit_code \in {<<>>, <<0>>})

C23_Witness ==
    /\ epc = "raised_exit"
    /\ body = <<Frame("invalid", "garbage", 0),
                Frame("unknown", "mystery", 0), Frame("exit", "", 3)>>
    /\ stderr_parts = <<"invalid exec response: garbage",
                        "unknown event type: mystery">>
    /\ execError.exit_code = 3

\* C26 (as claimed): when the process has exited, without --require-verify
\* the cleanup hook stopped no instance; with it, no instance was stopped
\* more than once and no instance whose snapshot had been taken was stopped.
C26_CleanupSparesSnapshotted ==
    mpc = "exited" =>
        \A i \in Presets :
            /\ ~args.require_verify => stopped[i] = 0
            /\ stopped[i] <= 1
            /\ results[i].ok => stopped[i] = 0

\* ====================================================== TaskRegistry.task
\* the names, functions, dependency tuples and descriptions handed to
\* registry.task in this model ("" is the description None)
RegistryNames == {"a", "b", "c"}
TaskFuncs == {"f", "g"}
DepTuples == {<<>>, <<"a">>}
Descriptions == {"", "note"}

TaskDefinition(name, func, deps, description) ==
    [name |-> name, func |-> func, dependencies |-> deps,
     description |-> description]

Registrations ==
    {TaskDefinition(n, f, d, x) :
        n \in RegistryNames, f \in TaskFuncs, d \in DepTuples,
        x \in Descriptions}

\* name in self._tasks
HasTask(tasks, name) == \E k \in 1..Len(tasks) : tasks[k].name = name

\* Variant: the definition is stored whether or not the name is taken, as a
\* plain dict assignment does.
DecorateOverwriting(tasks, def) ==
    [tasks |-> IF HasTask(tasks, def.name)
               THEN [k \in 1..Len(tasks) |->
                        IF tasks[k].name = def.name THEN def ELSE tasks[k]]
               ELSE Append(tasks, def),
     result |-> "registered"]

\* decorator(func): ValueError for a name that is registered, otherwise the
\* definition is stored under the name
Decorate(tasks, def) ==
    IF HasTask(tasks, def.name)
    THEN [tasks |-> tasks, result |-> "ValueError"]
    ELSE [tasks |-> Append(tasks, def), result |-> "registered"]

NoRegistration ==
    [def |-> TaskDefinition("", "", <<>>, ""), result |-> "none"]

\* TaskRegistry.__init__
RegisterInit ==
    /\ registered = <<>>
    /\ regOutcome = NoRegistration
    /\ regBefore = <<>>

\* @registry.task(name=..., deps=..., description=...) applied to a function
Register ==
    \E def \in Registrations :
        LET r == Decorate(registered, def)
        IN  /\ registered' = r.tasks
            /\ regOutcome' = [def |-> def, result |-> r.result]
            /\ regBefore' = registered
            /\ UNCHANGED outsideRegistry

RegisterNext == Register

IdleButRegistry ==
    GraphIdle /\ ManIdle /\ RunIdle /\ NormIdle /\ ExecIdle /\ ContextIdle
        /\ ProfileIdle
        /\ RequestIdle
        /\ SshIdle
        /\ CtxRunIdle
        /\ UploadIdle
        /\ PairIdle

RegisterStart == RegisterInit /\ IdleButRegistry

SpecRegister == RegisterStart /\ [][RegisterNext]_vars

\* C25: a registration under a name the registry already holds ends with
\* the ValueError and leaves the registry exactly as it was.
C25_DuplicateNameRejected ==
    (regOutcome.result # "none" /\ HasTask(regBefore, regOutcome.def.name)) =>
        /\ regOutcome.result = "ValueError"
        /\ registered = regBefore

\* "a" was registered with f, then "b", then "a" again with g and other
\* dependencies
C25_Witness ==
    /\ regOutcome = [def |-> TaskDefinition("a", "g", <<"a">>, "note"),
                     result |-> "ValueError"]
    /\ Len(registered) = 2
    /\ registered[1] = TaskDefinition("a", "f", <<>>, "")
    /\ registered = regBefore

\* ================================================ HttpExecClient.wait_ready
\* Largest retries given to wait_ready when it is looked at alone.
MaxWaitRetries == 6

\* the delays given to wait_ready, in half seconds
WaitDelays == {1, 2}

\* Variant: no attempt is taken to be the last one.
LastAttemptNever(k, n) == FALSE

\* if attempt == retries: break
LastAttempt(k, n) == k = n

\* await asyncio.to_thread(self._check_health) returns: return
CheckHealthOk ==
    /\ wpc = "loop"
    /\ Len(checks) < retries
    /\ checks' = Append(checks, "ok")
    /\ wpc' = "returned"
    /\ UNCHANGED <<outsideContext, exec_client, cgroup_path, sent, ipc,
                   upload_attempts, upload_sleeps, steps, cpc, apc, lpc,
                   retries, delay, sleeps>>

\* _check_health raises (no answer, or a status that is not 200): on the
\* last attempt break and raise RuntimeError("exec service did not become
\* ready"), otherwise go on to the sleep
CheckHealthFails ==
    /\ wpc = "loop"
    /\ Len(checks) < retries
    /\ checks' = Append(checks, "failed")
    /\ wpc' = IF LastAttempt(Len(checks'), retries) THEN "raised" ELSE "sleep"
    /\ UNCHANGED <<outsideContext, exec_client, cgroup_path, sent, ipc,
                   upload_attempts, upload_sleeps, steps, cpc, apc, lpc,
                   retries, delay, sleeps>>

\* await asyncio.sleep(delay) returns: the next attempt
SleepBetweenChecks ==
    /\ wpc = "sleep"
    /\ sleeps' = Append(sleeps, delay)
    /\ wpc' = "loop"
    /\ UNCHANGED <<outsideContext, exec_client, cgroup_path, sent, ipc,
                   upload_attempts, upload_sleeps, steps, cpc, apc, lpc,
                   retries, delay, checks>>

\* range(1, retries + 1) has no further attempt: the raise after the loop
LoopExhausted ==
    /\ wpc = "loop"
    /\ Len(checks) >= retries
    /\ wpc' = "raised"
    /\ UNCHANGED <<outsideContext, exec_client, cgroup_path, sent, ipc,
                   upload_attempts, upload_sleeps, steps, cpc, apc, lpc,
                   retries, delay, checks, sleeps>>

\* wait_ready(retries=..., delay=...) is called on either client
WaitInit ==
    /\ exec_client = FALSE /\ cgroup_path = "" /\ sent = <<>>
    /\ ipc = "idle" /\ upload_attempts = 0 /\ upload_sleeps = <<>>
    /\ steps = <<>> /\ cpc = "idle" /\ apc = "idle" /\ lpc = "idle"
    /\ retries \in 0..MaxWaitRetries
    /\ delay \in WaitDelays
    /\ checks = <<>>
    /\ sleeps = <<>>
    /\ wpc = "loop"

WaitNext ==
    \/ CheckHealthOk
    \/ CheckHealthFails
    \/ SleepBetweenChecks
    \/ LoopExhausted

IdleButContext ==
    GraphIdle /\ ManIdle /\ RunIdle /\ NormIdle /\ ExecIdle /\ RegistryIdle
        /\ ProfileIdle
        /\ RequestIdle
        /\ SshIdle
        /\ CtxRunIdle
        /\ UploadIdle
        /\ PairIdle

WaitStart == WaitInit /\ IdleButContext

\* the event loop runs the coroutine whenever the thread of _check_health
\* (urlopen with a timeout of 5 s) or the sleep has ended
SpecWaitReady == WaitStart /\ [][WaitNext]_vars /\ WF_vars(WaitNext)

AllFailed(outcomes) == \A k \in 1..Len(outcomes) : outcomes[k] = "failed"

\* C29: wait_ready(retries=N, delay) makes at most N health checks; it has
\* returned exactly when its latest check succeeded, and every check before
\* a success failed; every sleep lasts the delay and follows a failed check
\* that was not the N-th, so there is one sleep per failed check but none
\* after the N-th (N-1 sleeps when all N checks failed); it raises only
\* after N failed checks; and it always comes to return or raise.
C29_WaitReadyBounded ==
    /\ [](/\ Len(checks) <= retries
          /\ \A k \in 1..Len(sleeps) : sleeps[k] = delay
          /\ (wpc = "returned") <=>
                (checks # <<>> /\ checks[Len(checks)] = "ok")
          /\ AllFailed(SubSeq(checks, 1, Len(checks) - 1))
          /\ wpc = "returned" => Len(sleeps) = Len(checks) - 1
          /\ wpc = "loop" => Len(sleeps) = Len(checks)
          /\ wpc = "sleep" =>
                Len(sleeps) = Len(checks) - 1 /\ Len(checks) < retries
          /\ wpc = "raised" =>
                /\ AllFailed(checks)
                /\ Len(checks) = retries
                /\ retries >= 1 => Len(sleeps) = retries - 1)
    /\ <>(wpc \in {"returned", "raised"})

\* three polls, all failed: two sleeps of the delay, then the raise
C29_Witness ==
    /\ retries = 3
    /\ wpc = "raised"
    /\ checks = <<"failed", "failed", "failed">>
    /\ sleeps = <<delay, delay>>

\* ================================================ TaskContext and installer
\* setup_exec_service: await client.wait_ready(retries=30, delay=0.5); the
\* delay is counted in half seconds, as every duration of this part is
HealthGateRetries == 30
HealthGateDelay == 1

\* setup_exec_service: if upload_attempts >= 5: raise
MaxUploadAttempts == 5

\* Variant: the same pause after every failed upload.
UploadDelayFixed(k) == 3

\* delay = 1.5 * upload_attempts, in half seconds
UploadDelay(k) == 3 * k

\* configure_provisioning_cgroup: f"/sys/fs/cgroup/{profile.name}", the name
\* being that of _build_resource_profile
CgroupPath == "/sys/fs/cgroup/cmux-provision"

\* A command is the sequence of the blocks of its script. guarded: the block
\* acts only if its target exists and is writable; tolerant: a failure of
\* the block does not fail the script.
Block(kind, text) ==
    [kind |-> kind, text |-> text, guarded |-> FALSE, tolerant |-> FALSE]

Script(label) == <<Block("script", label)>>

\* the prelude of _wrap_command_with_cgroup:
\* if [ -d cg ] && [ -w cg/cgroup.procs ]; then
\*     printf '%d\n' $$ > cg/cgroup.procs || true
\* fi
CgroupPrelude(path) ==
    [kind |-> "cgroup-join", text |-> path, guarded |-> TRUE,
     tolerant |-> TRUE]

\* Variant: the prelude is put behind the command.
WrapAfterCommand(path, command) == command \o <<CgroupPrelude(path)>>

\* _wrap_command_with_cgroup: f"{prelude}\n{command}"
WrapCommandWithCgroup(path, command) == <<CgroupPrelude(path)>> \o command

\* _apply_environment: f"{self.environment_prelude}\n{command}"
ApplyEnvironment(command) == <<Block("env", "exports")>> \o command

\* TaskContext.run: what is handed to the backend, and to which one
CtxRun(task, label) ==
    LET command_with_env == ApplyEnvironment(Script(label))
    IN  [task |-> task, label |-> label, api |-> "run", use_cgroup |-> TRUE,
         via |-> IF exec_client THEN "http" ELSE "ssh",
         cgroup |-> cgroup_path,
         command |-> IF cgroup_path # ""
                     THEN WrapCommandWithCgroup(cgroup_path, command_with_env)
                     ELSE command_with_env]

\* TaskContext.run_via_ssh: always _run_command
CtxRunViaSsh(task, label, use_cgroup) ==
    LET command_with_env == ApplyEnvironment(Script(label))
    IN  [task |-> task, label |-> label, api |-> "run_via_ssh",
         use_cgroup |-> use_cgroup, via |-> "ssh", cgroup |-> cgroup_path,
         command |-> IF use_cgroup /\ cgroup_path # ""
                     THEN WrapCommandWithCgroup(cgroup_path, command_with_env)
                     ELSE command_with_env]

\* TaskContext._collect_execd_log: instance.aexec, beside the exec service
CollectExecdLog(task) ==
    [task |-> task, label |-> "collect-execd-log", api |-> "aexec",
     use_cgroup |-> FALSE, via |-> "ssh", cgroup |-> cgroup_path,
     command |-> Script("tail cmux-execd.log")]

\* TaskContext.run with its outcome: the command is sent; when the exec
\* client raises, the daemon's log is fetched before the error goes on
SentAfterRun(task, label, ok) ==
    IF ~ok /\ exec_client
    THEN sent \o <<CtxRun(task, label), CollectExecdLog(task)>>
    ELSE Append(sent, CtxRun(task, label))

\* Variant: the client is attached as soon as the daemon was launched.
ClientAfterLaunch(done) ==
    done # <<>> /\ done[Len(done)] \in {"start:ok", "health:ok"}

\* setup_exec_service: ctx.exec_client = client follows wait_ready
ClientAfter(done) == done # <<>> /\ done[Len(done)] = "health:ok"

ContextInit ==
    /\ exec_client = FALSE
    /\ cgroup_path = ""
    /\ sent = <<>>
    /\ ipc = "build"
    /\ upload_attempts = 0
    /\ upload_sleeps = <<>>
    /\ steps = <<>>
    /\ cpc = "configure"
    /\ apc = "run"
    /\ lpc = "waiting"
    /\ retries = 0
    /\ delay = 0
    /\ checks = <<>>
    /\ sleeps = <<>>
    /\ wpc = "idle"

\* build_exec_binary: await asyncio.to_thread(_build_exec_binary_sync, ...)
BuildBinary ==
    /\ ipc = "build"
    /\ \E ok \in BOOLEAN :
          /\ steps' = Append(steps, IF ok THEN "build:ok" ELSE "build:failed")
          /\ ipc' = IF ok THEN "upload" ELSE "failed"
    /\ exec_client' = ClientAfter(steps')
    /\ UNCHANGED <<outsideContext, cgroup_path, sent, upload_attempts,
                   upload_sleeps, cpc, apc, lpc, retries, delay, checks,
                   sleeps, wpc>>

\* await ctx.instance.aupload(...) returns: break
UploadOk ==
    /\ ipc = "upload"
    /\ steps' = Append(steps, "upload:ok")
    /\ ipc' = "verify"
    /\ exec_client' = ClientAfter(steps')
    /\ UNCHANGED <<outsideContext, cgroup_path, sent, upload_attempts,
                   upload_sleeps, cpc, apc, lpc, retries, delay, checks,
                   sleeps, wpc>>

\* aupload raises ApiError, httpx.HTTPError, paramiko.SSHException or
\* OSError: upload_attempts += 1; raise at 5, otherwise sleep
UploadFails ==
    /\ ipc = "upload"
    /\ steps' = Append(steps, "upload:error")
    /\ upload_attempts' = upload_attempts + 1
    /\ IF upload_attempts' >= MaxUploadAttempts
       THEN /\ ipc' = "failed"
            /\ UNCHANGED upload_sleeps
       ELSE /\ ipc' = "upload_sleep"
            /\ upload_sleeps' =
                  Append(upload_sleeps, UploadDelay(upload_attempts'))
    /\ exec_client' = ClientAfter(steps')
    /\ UNCHANGED <<outsideContext, cgroup_path, sent, cpc, apc, lpc, retries,
                   delay, checks, sleeps, wpc>>

\* aupload raises an exception the except clause does not name
UploadRaisesOther ==
    /\ ipc = "upload"
    /\ steps' = Append(steps, "upload:other")
    /\ ipc' = "failed"
    /\ exec_client' = ClientAfter(steps')
    /\ UNCHANGED <<outsideContext, cgroup_path, sent, upload_attempts,
                   upload_sleeps, cpc, apc, lpc, retries, delay, checks,
                   sleeps, wpc>>

\* await asyncio.sleep(delay) returns: the next upload attempt
UploadRetry ==
    /\ ipc = "upload_sleep"
    /\ ipc' = "upload"
    /\ UNCHANGED <<outsideContext, exec_client, cgroup_path, sent,
                   upload_attempts, upload_sleeps, steps, cpc, apc, lpc,
                   retries, delay, checks, sleeps, wpc>>

\* await ctx.run_via_ssh("verify-exec-upload", ..., use_cgroup=False)
VerifyUpload ==
    /\ ipc = "verify"
    /\ sent' = Append(sent, CtxRunViaSsh("build-setup-exec-binary",
                                         "verify-exec-upload", FALSE))
    /\ \E ok \in BOOLEAN :
          /\ steps' = Append(steps, IF ok THEN "verify:ok" ELSE "verify:failed")
          /\ ipc' = IF ok THEN "start" ELSE "failed"
    /\ exec_client' = ClientAfter(steps')
    /\ UNCHANGED <<outsideContext, cgroup_path, upload_attempts,
                   upload_sleeps, cpc, apc, lpc, retries, delay, checks,
                   sleeps, wpc>>

\* await ctx.run_via_ssh("start-exec-service", ..., use_cgroup=False); then
\* client = HttpExecClient(...) and wait_ready(retries=30, delay=0.5) is
\* entered
StartService ==
    /\ ipc = "start"
    /\ sent' = Append(sent, CtxRunViaSsh("build-setup-exec-binary",
                                         "start-exec-service", FALSE))
    /\ \E ok \in BOOLEAN :
          /\ steps' = Append(steps, IF ok THEN "start:ok" ELSE "start:failed")
          /\ ipc' = IF ok THEN "health" ELSE "failed"
          /\ IF ok
             THEN /\ retries' = HealthGateRetries
                  /\ delay' = HealthGateDelay
                  /\ wpc' = "loop"
             ELSE UNCHANGED <<retries, delay, wpc>>
    /\ exec_client' = ClientAfter(steps')
    /\ UNCHANGED <<outsideContext, cgroup_path, upload_attempts,
                   upload_sleeps, cpc, apc, lpc, checks, sleeps>>

\* wait_ready returned: ctx.exec_client = client; the task is complete
HealthGateReturns ==
    /\ ipc = "health"
    /\ wpc = "returned"
    /\ steps' = Append(steps, "health:ok")
    /\ ipc' = "done"
    /\ exec_client' = ClientAfter(steps')
    /\ UNCHANGED <<outsideContext, cgroup_path, sent, upload_attempts,
                   upload_sleeps, cpc, apc, lpc, retries, delay, checks,
                   sleeps, wpc>>

\* wait_ready raised: the error leaves setup_exec_service and the task
HealthGateRaises ==
    /\ ipc = "health"
    /\ wpc = "raised"
    /\ steps' = Append(steps, "health:failed")
    /\ ipc' = "failed"
    /\ exec_client' = ClientAfter(steps')
    /\ UNCHANGED <<outsideContext, cgroup_path, sent, upload_attempts,
                   upload_sleeps, cpc, apc, lpc, retries, delay, checks,
                   sleeps, wpc>>

\* configure_provisioning_cgroup: await ctx.run("configure-resource-cgroup")
ConfigureCgroup ==
    /\ cpc = "configure"
    /\ \E ok \in BOOLEAN :
          /\ sent' = SentAfterRun("configure-provisioning-cgroup",
                                  "configure-resource-cgroup", ok)
          /\ cpc' = IF ok THEN "verify" ELSE "failed"
    /\ UNCHANGED <<outsideContext, exec_client, cgroup_path, ipc,
                   upload_attempts, upload_sleeps, steps, apc, lpc, retries,
                   delay, checks, sleeps, wpc>>

\* verification = await ctx.run("verify-resource-cgroup", ...); when its
\* stdout is "ready": ctx.cgroup_path = cgroup_path
VerifyCgroup ==
    /\ cpc = "verify"
    /\ \E ok \in BOOLEAN, ready \in BOOLEAN :
          /\ sent' = SentAfterRun("configure-provisioning-cgroup",
                                  "verify-resource-cgroup", ok)
          /\ cpc' = IF ok THEN "done" ELSE "failed"
          /\ cgroup_path' = IF ok /\ ready THEN CgroupPath ELSE cgroup_path
    /\ UNCHANGED <<outsideContext, exec_client, ipc, upload_attempts,
                   upload_sleeps, steps, apc, lpc, retries, delay, checks,
                   sleeps, wpc>>

\* task_apt_bootstrap: await ctx.run("apt-bootstrap", cmd)
AptBootstrap ==
    /\ apc = "run"
    /\ \E ok \in BOOLEAN :
          /\ sent' = SentAfterRun("apt-bootstrap", "apt-bootstrap", ok)
          /\ apc' = IF ok THEN "done" ELSE "failed"
    /\ UNCHANGED <<outsideContext, exec_client, cgroup_path, ipc,
                   upload_attempts, upload_sleeps, steps, cpc, lpc, retries,
                   delay, checks, sleeps, wpc>>

\* run_task_graph: the gather of the first layer (the three tasks without
\* dependencies) returned; install-base-packages, which depends on
\* apt-bootstrap, is ready: await ctx.run("install-base-packages", cmd)
InstallBasePackages ==
    /\ lpc = "waiting"
    /\ ipc = "done" /\ cpc = "done" /\ apc = "done"
    /\ \E ok \in BOOLEAN :
          /\ sent' = SentAfterRun("install-base-packages",
                                  "install-base-packages", ok)
          /\ lpc' = IF ok THEN "done" ELSE "failed"
    /\ UNCHANGED <<outsideContext, exec_client, cgroup_path, ipc,
                   upload_attempts, upload_sleeps, steps, cpc, apc, retries,
                   delay, checks, sleeps, wpc>>

Running(pos) == pos \notin {"done", "failed", "cancelled", "waiting"}

\* the gather of the first layer raised for a failed task; the tasks still
\* running are cancelled when asyncio.run ends
CancelTasks ==
    /\ "failed" \in {ipc, cpc, apc}
    /\ Running(ipc) \/ Running(cpc) \/ Running(apc)
    /\ ipc' = IF Running(ipc) THEN "cancelled" ELSE ipc
    /\ cpc' = IF Running(cpc) THEN "cancelled" ELSE cpc
    /\ apc' = IF Running(apc) THEN "cancelled" ELSE apc
    /\ wpc' = IF wpc \in {"loop", "sleep"} THEN "cancelled" ELSE wpc
    /\ UNCHANGED <<outsideContext, exec_client, cgroup_path, sent,
                   upload_attempts, upload_sleeps, steps, lpc, retries,
                   delay, checks, sleeps>>

ContextNext ==
    \/ BuildBinary
    \/ UploadOk
    \/ UploadFails
    \/ UploadRaisesOther
    \/ UploadRetry
    \/ VerifyUpload
    \/ StartService
    \/ CheckHealthOk
    \/ CheckHealthFails
    \/ SleepBetweenChecks
    \/ HealthGateReturns
    \/ HealthGateRaises
    \/ ConfigureCgroup
    \/ VerifyCgroup
    \/ AptBootstrap
    \/ InstallBasePackages
    \/ CancelTasks

ContextStart == ContextInit /\ IdleButContext

SpecContext == ContextStart /\ [][ContextNext]_vars

\* ---------------------------------------------------- task context claims
\* the command starts with the block that joins the cgroup at path: the
\* shell's PID is written to path/cgroup.procs if that file is there and
\* writable, and a failed write is passed over
JoinsCgroupFirst(command, path) ==
    /\ command[1].kind = "cgroup-join"
    /\ command[1].text = path
    /\ command[1].guarded
    /\ command[1].tolerant
    /\ \A j \in 2..Len(command) : command[j].kind # "cgroup-join"

NoCgroupJoin(command) ==
    \A j \in 1..Len(command) : command[j].kind # "cgroup-join"

\* C24: a command sent through ctx.run while ctx.cgroup_path is set starts
\* with the tolerant cgroup-join prelude for that path, followed by the
\* environment and the script; a command of ctx.run or ctx.run_via_ssh is
\* without the prelude only if cgroup_path was unset at the call or it came
\* through run_via_ssh with use_cgroup=False; cgroup_path, once set, stays.
C24_CgroupPreludePrefixed ==
    /\ \A k \in 1..Len(sent) :
          LET e == sent[k]
          IN  /\ (e.api = "run" /\ e.cgroup # "") =>
                    /\ JoinsCgroupFirst(e.command, e.cgroup)
                    /\ e.command[2].kind = "env"
                    /\ e.command[3] = [kind |-> "script", text |-> e.label,
                                       guarded |-> FALSE, tolerant |-> FALSE]
              /\ e.api \in {"run", "run_via_ssh"} =>
                    \/ JoinsCgroupFirst(e.command, e.cgroup)
                    \/ /\ NoCgroupJoin(e.command)
                       /\ \/ e.cgroup = ""
                          \/ e.api = "run_via_ssh" /\ ~e.use_cgroup
              /\ (e.cgroup # "" /\ k < Len(sent)) => sent[k + 1].cgroup # ""
              /\ e.cgroup # "" => cgroup_path = e.cgroup

\* the cgroup was set before the daemon was launched: the launch went
\* without the prelude, a later ctx.run over HTTP with it
C24_Witness ==
    \E j, k \in 1..Len(sent) :
        /\ j < k
        /\ sent[j].label = "start-exec-service"
        /\ sent[j].cgroup = "/sys/fs/cgroup/cmux-provision"
        /\ NoCgroupJoin(sent[j].command)
        /\ sent[k].api = "run"
        /\ sent[k].via = "http"
        /\ sent[k].command[1].kind = "cgroup-join"

\* C27 (as claimed): every command of a task other than
\* build-setup-exec-binary went to the HTTP exec client, and the commands
\* that went over SSH are the installer's own.
C27_OnlyInstallerUsesSsh ==
    \A k \in 1..Len(sent) :
        (sent[k].via = "ssh") <=> (sent[k].task = "build-setup-exec-binary")

\* the outcomes of the installer's steps, the retried uploads left out
StepsWithoutRetries ==
    SelectSeq(steps, LAMBDA x : x # "upload:error")

UploadErrors ==
    Cardinality({k \in 1..Len(steps) : steps[k] = "upload:error"})

SomeStepFailed ==
    \/ \E k \in 1..Len(steps) :
          steps[k] \in {"build:failed", "upload:other", "verify:failed",
                        "start:failed", "health:failed"}
    \/ UploadErrors >= 5

\* C28: while ctx.exec_client is attached, the installer has built the
\* binary, uploaded it, verified the upload, run the launch script and got
\* a successful wait_ready(retries=30, delay=0.5), in this order, and has
\* completed; once one of its steps has failed, the installer task has
\* failed and exec_client is unset, and so it is while the installer is
\* under way or was cancelled.
C28_ClientAttachedAfterHealthGate ==
    /\ exec_client =>
          /\ StepsWithoutRetries = <<"build:ok", "upload:ok", "verify:ok",
                                     "start:ok", "health:ok">>
          /\ retries = 30 /\ delay = 1
          /\ wpc = "returned"
          /\ Len(checks) <= 30
          /\ ipc = "done"
    /\ SomeStepFailed => (ipc = "failed" /\ ~exec_client)
    /\ ipc # "done" => ~exec_client

\* attached after a retried upload and a health gate that needed three polls
C28_Witness ==
    /\ exec_client
    /\ steps = <<"build:ok", "upload:error", "upload:ok", "verify:ok",
                 "start:ok", "health:ok">>
    /\ checks = <<"failed", "failed", "ok">>

UploadTries ==
    Cardinality({k \in 1..Len(steps) :
        steps[k] \in {"upload:ok", "upload:error", "upload:other"}})

\* C30: the upload is tried at most 5 times; the k-th pause is of 1.5 * k
\* seconds (3 * k half seconds) and there is one pause for each of the
\* first four failures with an API, HTTP, SSH or OS error; with the fifth
\* such failure the installer has failed with no fifth pause; the upload is
\* tried again only after a pause; and the commands of the launch are sent
\* only after an upload succeeded.
C30_UploadRetriedWithLinearBackoff ==
    /\ UploadTries <= 5
    /\ Len(upload_sleeps) = (IF UploadErrors < 5 THEN UploadErrors ELSE 4)
    /\ \A k \in 1..Len(upload_sleeps) : upload_sleeps[k] = 3 * k
    /\ UploadErrors = 5 => ipc = "failed"
    /\ (UploadErrors \in 1..4 /\ steps[Len(steps)] = "upload:error") =>
          ipc \in {"upload_sleep", "upload", "cancelled"}
    /\ \A k \in 1..Len(sent) :
          sent[k].task = "build-setup-exec-binary" =>
              "upload:ok" \in Range(steps)
    /\ \A k \in 1..Len(steps) :
          steps[k] \in {"verify:ok", "verify:failed", "start:ok",
                        "start:failed"} =>
              \E j \in 1..(k - 1) : steps[j] = "upload:ok"

\* four failed uploads with pauses of 1.5, 3, 4.5 and 6 s, then a success
\* and the launch
C30_Witness ==
    /\ upload_sleeps = <<3, 6, 9, 12>>
    /\ Len(steps) >= 6
    /\ SubSeq(steps, 2, 6) = <<"upload:error", "upload:error",
                                "upload:error", "upload:error", "upload:ok">>
    /\ \E k \in 1..Len(sent) : sent[k].label = "start-exec-service"

\* C40: when the body holds several exit frames, the exit code is that of
\* the last one and decides whether the run returns or raises; the data of
\* every stdout frame and one part per stderr, error and bad line are
\* collected, those behind an exit frame included: the body is read to its
\* end.
C40_LastExitFrameDecides ==
    (StreamEnded /\ Len(ExitFrames(body)) >= 2) =>
        /\ exit_code = ExitCodeAfter(client, body)
        /\ (epc = "returned") <=> (exit_code = <<0>>)
        /\ JoinParts(stdout_parts) = DataOf(body, "stdout")
        /\ Len(stderr_parts) =
              Cardinality({k \in 1..Len(body) :
                  body[k].type \in {"stderr", "error", "invalid", "unknown"}})
        /\ epc = "returned" =>
              /\ execResult.stdout = DataOf(body, "stdout")
              /\ execResult.stderr = JoinParts(stderr_parts)

\* exit 3, then stdout "a", then exit 0: the run returns with stdout "a"
C40_Witness ==
    /\ epc = "returned"
    /\ body = <<Frame("exit", "", 3), Frame("stdout", "a", 0),
                Frame("exit", "", 0)>>
    /\ execResult = [exit_code |-> 0, stdout |-> "a", stderr |-> ""]

\* ------------------------------------------------- run claims, continued
\* the positions of the manifest's entries with a presetId
EntriesWithId(m, id) == {q \in 1..Len(m.presets) : m.presets[q].presetId = id}

\* the versions of the first entry with a presetId, none without an entry
VersionsWithId(m, id) ==
    IF EntriesWithId(m, id) = {} THEN <<>>
    ELSE m.presets[CHOOSE q \in EntriesWithId(m, id) :
                       \A r \in EntriesWithId(m, id) : q <= r].versions

\* the version numbers the manifest gives a snapshot id
VersionsOfSnapshot(m, sid) ==
    {m.presets[q].versions[k].version :
        <<q, k>> \in {x \in (1..Len(m.presets)) \X (1..MaxFileVersions + 2) :
            /\ x[2] <= Len(m.presets[x[1]].versions)
            /\ m.presets[x[1]].versions[x[2]].snapshotId = sid}}

\* C39: when both plans of a run have the same preset_id and the run has
\* written the manifest, the manifest has exactly one entry with that
\* presetId; the entry keeps the versions it was loaded with and has two
\* more, the standard plan's snapshot and the boosted plan's, numbered with
\* two consecutive numbers above all loaded ones; the file written holds
\* both snapshot ids.
C39_SamePresetIdBothVersionsKept ==
    (mpc \in {"done", "exited"} /\ writes = 1 /\ PlanId(1) = PlanId(2)) =>
        LET before == VersionsWithId(loadedManifest, PlanId(1))
            after  == VersionsWithId(manifest, PlanId(1))
        IN  /\ Cardinality(EntriesWithId(manifest, PlanId(1))) = 1
            /\ Len(after) = Len(before) + 2
            /\ Range(before) \subseteq Range(after)
            /\ \E v \in 1..(MaxFileVersions + 6) :
                  /\ VersionsOfSnapshot(manifest, "snapshot_new1") = {v}
                  /\ VersionsOfSnapshot(manifest, "snapshot_new2") = {v + 1}
                  /\ \A k \in 1..Len(before) : before[k].version < v
            /\ {"snapshot_new1", "snapshot_new2"} \subseteq FileSnapshotIds

\* both plans are 4vcpu_16gb_48gb; the file had versions for that id
C39_Witness ==
    /\ mpc = "done"
    /\ PlanId(1) = PlanId(2)
    /\ Len(VersionsWithId(loadedManifest, PlanId(1))) >= 1
    /\ Len(VersionsWithId(manifest, PlanId(1)))
          = Len(VersionsWithId(loadedManifest, PlanId(1))) + 2

\* C36 (as claimed): once the run is over, without --require-verify a
\* set_ttl call was made for the instance of every preset that returned a
\* snapshot, before the manifest was written, and each call that took effect
\* set 600 seconds with action pause; when the calls were made the manifest
\* was written, whether or not a call raised; with --require-verify no
\* set_ttl call was made.
C36_PostSnapshotTtl ==
    mpc \in {"done", "exited"} =>
        \A i \in Presets :
            /\ (~args.require_verify /\ results[i].ok) =>
                  /\ ttlSet[i].attempted
                  /\ ttlSet[i].writes = 0
                  /\ ttlSet[i].set =>
                        (ttlSet[i].ttl_seconds = 600
                            /\ ttlSet[i].ttl_action = "pause")
            /\ ttlSet[i].attempted => writes = 1
            /\ args.require_verify => ~ttlSet[i].attempted

\* ------------------------------------------- scheduler claims, continued
\* the tasks that depend, directly or through other tasks, on a name that is
\* not registered
DependsOnUnknown == {t \in Registered : TransDeps(t) \ Registered # {}}

\* C37: in a registry without a cycle where some task depends on an
\* unregistered name, that task and its dependents are never started and the
\* run never returns normally; while no task has failed the run goes on until
\* the dependency-cycle error, which is raised when every other task has run
\* and lists exactly the tasks that depend on the unregistered name.
C37_UnknownDependencyNeverStarts ==
    (~HasCycle /\ DependsOnUnknown # {}) =>
        /\ \A t \in DependsOnUnknown :
              taskState[t] = "pending" /\ starts[t] = 0
        /\ pc # "returned"
        /\ NoneFailed => (pc = "cycle" \/ ENABLED GraphNext)
        /\ pc = "cycle" =>
              /\ Range(unresolved) = DependsOnUnknown
              /\ \A t \in Registered \ DependsOnUnknown :
                    taskState[t] = "ok" /\ starts[t] = 1

C37_Witness ==
    /\ pc = "cycle"
    /\ ~HasCycle
    /\ \E t \in Registered : taskState[t] = "ok"
    /\ \E t, u \in DependsOnUnknown :
          /\ registry.deps[t] \ Registered # {}
          /\ registry.deps[u] = {t}

\* ------------------------------------------------ _build_resource_profile
\* the largest vcpus and memory_mib a profile is built for
MaxVcpus == 8
MaxMemoryMib == 12

\* an int | None field: <<>> is None, <<n>> the integer n
NoneValue == <<>>
IntValue(n) == <<n>>

\* a and b of Python: a when a is None or 0, b otherwise
PyAnd(a, b) == IF a = NoneValue \/ a = IntValue(0) THEN a ELSE b

\* Variant: the quota is nine tenths of the CPUs, whatever the period.
CpuQuotaUnclamped(v, cpu_period) ==
    IF v > 0 THEN IntValue((v * cpu_period * 9) \div 10) ELSE NoneValue

\* cpu_quota = max(int(vcpus * cpu_period * 0.9), cpu_period) if vcpus > 0;
\* int() drops the fraction of the positive product
CpuQuota(v, cpu_period) ==
    IF v > 0
    THEN IntValue(Max2((v * cpu_period * 9) \div 10, cpu_period))
    ELSE NoneValue

\* memory_high = max(memory_bytes * 9 // 10, 1) if memory_bytes > 0
MemoryHigh(memory_bytes) ==
    IF memory_bytes > 0
    THEN IntValue(Max2((memory_bytes * 9) \div 10, 1))
    ELSE NoneValue

\* memory_max = max(memory_bytes * 95 // 100, memory_high)
MemoryMax(memory_bytes) ==
    IF memory_bytes > 0
    THEN IntValue(Max2((memory_bytes * 95) \div 100,
                       MemoryHigh(memory_bytes)[1]))
    ELSE NoneValue

BuildResourceProfile(v, memory_mib) ==
    LET cpu_period == 100000
        cpu_quota == CpuQuota(v, cpu_period)
        memory_bytes == memory_mib * 1024 * 1024
    IN  [name |-> "cmux-provision",
         cpu_quota |-> cpu_quota,
         cpu_period |-> PyAnd(cpu_quota, IntValue(cpu_period)),
         cpu_weight |-> IntValue(80),
         memory_high |-> MemoryHigh(memory_bytes),
         memory_max |-> MemoryMax(memory_bytes),
         io_weight |-> IntValue(200)]

ProfileInit ==
    /\ profileArgs \in [vcpus : -1..MaxVcpus, memory_mib : -1..MaxMemoryMib]
    /\ profile = <<>>

\* resource_profile = _build_resource_profile(vcpus, memory_mib)
BuildProfile ==
    /\ profile = <<>>
    /\ profile' = BuildResourceProfile(profileArgs.vcpus,
                                       profileArgs.memory_mib)
    /\ UNCHANGED <<outsideProfile, profileArgs>>

ProfileNext == BuildProfile

IdleButProfile ==
    GraphIdle /\ ManIdle /\ RunIdle /\ NormIdle /\ ExecIdle /\ ContextIdle
        /\ RegistryIdle
        /\ RequestIdle
        /\ SshIdle
        /\ CtxRunIdle
        /\ UploadIdle
        /\ PairIdle

ProfileStart == ProfileInit /\ IdleButProfile

SpecProfile == ProfileStart /\ [][ProfileNext]_vars

\* C34: in every profile built, cpu_quota is set exactly when cpu_period is
\* set, and then cpu_period is 100000 and cpu_quota is the larger of
\* vcpus * 90000 and 100000; when the memory fields are set, memory_high is
\* nine tenths of the memory in bytes, rounded down, and at least 1, and
\* memory_max is the larger of 95 hundredths of the memory, rounded down,
\* and memory_high.
C34_ProfileWithinLimits ==
    profile # <<>> =>
        LET v == profileArgs.vcpus
            bytes == profileArgs.memory_mib * 1048576
        IN  /\ (profile.cpu_quota # <<>>) <=> (profile.cpu_period # <<>>)
            /\ profile.cpu_quota # <<>> =>
                  /\ profile.cpu_period = <<100000>>
                  /\ profile.cpu_quota =
                        <<IF v * 90000 > 100000 THEN v * 90000 ELSE 100000>>
                  /\ profile.cpu_quota[1] >= profile.cpu_period[1]
            /\ (profile.memory_high # <<>>) <=> (profile.memory_max # <<>>)
            /\ profile.memory_high # <<>> =>
                  LET high == profile.memory_high[1]
                      max == profile.memory_max[1]
                  IN  /\ 1 <= high
                      /\ high = (bytes * 9) \div 10
                      /\ high <= max
                      /\ max = IF (bytes * 95) \div 100 > high
                               THEN (bytes * 95) \div 100 ELSE high

C34_Witness ==
    /\ profile # <<>>
    /\ profileArgs.vcpus = 1
    /\ profile.cpu_quota = <<100000>>
    /\ profile.memory_high # <<>>
    /\ profile.memory_max[1] > profile.memory_high[1]

\* ------------------------------------------- _run_sync: the POST /exec request
\* Time is counted in half milliseconds, so that timeouts below and between
\* whole milliseconds can be told apart.
HalfMsPerMs == 2
HalfMsPerSecond == 1000 * HalfMsPerMs

\* the timeouts a command is run with: none, 0, 0.5 ms, 1 ms, 1.5 ms, 1 s,
\* 10 s, 25 s, 25.001 s, 60 s and the 30 minutes of the build tasks
Timeouts ==
    {NoneValue} \cup
    {IntValue(h) : h \in {0, 1, 2, 3, 2000, 20000, 50000, 50002, 120000,
                          3600000}}

\* Command: a script (str) or an argument vector (Sequence[str])
RequestCommands ==
    {[kind |-> "str", text |-> "make build", argv |-> <<>>],
     [kind |-> "str", text |-> "true", argv |-> <<>>],
     [kind |-> "list", text |-> "", argv |-> <<"ls", "-l">>],
     [kind |-> "list", text |-> "", argv |-> <<"echo", "a b">>]}

\* shell_command / _shell_command
ShellCommand(command) ==
    IF command.kind = "str"
    THEN <<"bash", "-lc", "set -euo pipefail\n" \o command.text>>
    ELSE command.argv

\* the words shlex.quote leaves as they are: no character outside
\* [A-Za-z0-9@%+=:,./-]
SafeWords == {"bash", "-lc", "ls", "-l", "echo"}

ShlexQuote(word) == IF word \in SafeWords THEN word ELSE "'" \o word \o "'"

RECURSIVE ShlexJoin(_)
ShlexJoin(words) ==
    IF words = <<>> THEN ""
    ELSE IF Len(words) = 1 THEN ShlexQuote(words[1])
    ELSE ShlexQuote(words[1]) \o " " \o ShlexJoin(Tail(words))

\* payload["timeout_ms"] = max(int(timeout * 1000), 1), when a timeout is given
TimeoutMs(timeout) ==
    IF timeout = NoneValue THEN NoneValue
    ELSE IntValue(Max2(timeout[1] \div HalfMsPerMs, 1))

\* the timeout of urlopen, in half milliseconds: max(timeout + 5, 30.0)
ReadTimeout(timeout) ==
    IF timeout = NoneValue THEN NoneValue
    ELSE IntValue(Max2(timeout[1] + 5 * HalfMsPerSecond,
                       30 * HalfMsPerSecond))

RequestInit ==
    /\ reqArgs \in [client : Clients, command : RequestCommands,
                     timeout : Timeouts]
    /\ request = <<>>

\* _run_sync up to urlopen: both clients build the same request
BuildRequest ==
    /\ request = <<>>
    /\ request' =
          [method |-> "POST", path |-> "exec",
           command |-> ShlexJoin(ShellCommand(reqArgs.command)),
           timeout_ms |-> TimeoutMs(reqArgs.timeout),
           read_timeout |-> ReadTimeout(reqArgs.timeout)]
    /\ UNCHANGED <<outsideRequest, reqArgs>>

RequestNext == BuildRequest

IdleButRequest ==
    GraphIdle /\ ManIdle /\ RunIdle /\ NormIdle /\ ExecIdle /\ ContextIdle
        /\ RegistryIdle /\ ProfileIdle
        /\ SshIdle
        /\ CtxRunIdle
        /\ UploadIdle
        /\ PairIdle

RequestStart == RequestInit /\ IdleButRequest

SpecRequest == RequestStart /\ [][RequestNext]_vars

\* C33 (as claimed): a request built for a command with a timeout of t
\* seconds carries timeout_ms = t * 1000 and is read with a timeout of
\* exactly t + 5 seconds; a request built without a timeout carries no
\* timeout_ms.
C33_TimeoutSentAndReadTimeout ==
    request # <<>> =>
        IF reqArgs.timeout = <<>>
        THEN request.timeout_ms = <<>>
        ELSE /\ request.timeout_ms # <<>>
             /\ request.timeout_ms[1] * 2 = reqArgs.timeout[1]
             /\ request.read_timeout = <<reqArgs.timeout[1] + 10000>>

\* ------------------------------------------------- the SSH exec paths
\* _run_command runs a task's command through instance.aexec;
\* MorphDockerfileExecutor._exec_with_retry runs a build command through
\* snapshot.exec. Delays are counted in half seconds.
SshPaths == {"_run_command", "_exec_with_retry"}

\* _run_command: max_attempts = 3
max_attempts == 3
\* _exec_with_retry: attempts = 4
RetryAttempts == 4

\* how a call of the SDK can end: it returns a result with an exit code, or
\* raises a connection-level error (httpx.HTTPError, OSError, socket.error),
\* or raises another exception
ExitCodes == {0, 1, 2}
CallFailures == {"connection", "other"}

Min2(a, b) == IF a <= b THEN a ELSE b

RECURSIVE Pow2(_)
Pow2(n) == IF n = 0 THEN 1 ELSE 2 * Pow2(n - 1)

\* _run_command: delay = min(2**attempts, 8), in half seconds
RunCommandDelay(attempts) == 2 * Min2(Pow2(attempts), 8)

\* _exec_with_retry: time.sleep(1.0 + i * 0.5), in half seconds
ExecRetryDelay(i) == 2 + i

SshInit ==
    /\ sshPath \in SshPaths
    /\ sshAttempts = 0
    /\ sshLog = <<>>
    /\ sshSleeps = <<>>
    /\ sshError = ""
    /\ spc = "call"

\* the call returns a result. _run_command raises RuntimeError on a non-zero
\* exit code and returns the result otherwise; _exec_with_retry keeps the
\* snapshot returned and returns.
SshCallReturns(code) ==
    /\ spc = "call"
    /\ sshAttempts' = sshAttempts + 1
    /\ sshLog' = Append(sshLog, [kind |-> "returned", code |-> code])
    /\ IF sshPath = "_run_command" /\ code # 0
       THEN sshError' = "exit code" /\ spc' = "raised"
       ELSE sshError' = sshError /\ spc' = "returned"
    /\ UNCHANGED <<outsideSsh, sshPath, sshSleeps>>

\* the call raises. _run_command catches the connection-level errors and
\* retries while attempts < max_attempts; _exec_with_retry catches every
\* exception and sleeps.
SshCallRaises(kind) ==
    /\ spc = "call"
    /\ sshAttempts' = sshAttempts + 1
    /\ sshLog' = Append(sshLog, [kind |-> kind, code |-> 0])
    /\ IF sshPath = "_run_command"
       THEN IF kind = "connection" /\ sshAttempts' < max_attempts
            THEN sshError' = sshError /\ spc' = "sleep"
            ELSE sshError' = kind /\ spc' = "raised"
       ELSE sshError' = kind /\ spc' = "sleep"
    /\ UNCHANGED <<outsideSsh, sshPath, sshSleeps>>

\* the sleep after a failed call. _run_command goes on with the next
\* attempt; _exec_with_retry goes on with the next i, and after the last one
\* raises last_err.
SshSleep ==
    /\ spc = "sleep"
    /\ sshSleeps' = Append(sshSleeps,
                           IF sshPath = "_run_command"
                           THEN RunCommandDelay(sshAttempts)
                           ELSE ExecRetryDelay(sshAttempts - 1))
    /\ spc' = IF sshPath = "_exec_with_retry" /\ sshAttempts = RetryAttempts
              THEN "raised" ELSE "call"
    /\ UNCHANGED <<outsideSsh, sshPath, sshAttempts, sshLog, sshError>>

SshNext ==
    \/ \E code \in ExitCodes : SshCallReturns(code)
    \/ \E kind \in CallFailures : SshCallRaises(kind)
    \/ SshSleep

IdleButSsh ==
    GraphIdle /\ ManIdle /\ RunIdle /\ NormIdle /\ ExecIdle /\ ContextIdle
        /\ RegistryIdle /\ ProfileIdle /\ RequestIdle
        /\ CtxRunIdle
        /\ UploadIdle
        /\ PairIdle

SshStart == SshInit /\ IdleButSsh

SpecSsh == SshStart /\ [][SshNext]_vars

\* the calls of a run that ended with a connection-level error
ConnectionFailures ==
    {k \in 1..Len(sshLog) : sshLog[k].kind = "connection"}

\* C31 (as claimed): a command whose calls fail with connection-level errors
\* is tried again until it was tried 4 times, the k-th retry comes after a
\* sleep of 1.0 + 0.5 * (k - 1) seconds, the error raised when the calls are
\* used up is the one of the last call, and a call that returned an exit
\* code is never followed by another call.
C31_SshRetriesThreeTimes ==
    /\ (spc = "raised" /\ sshLog[Len(sshLog)].kind = "connection") =>
          /\ Len(sshLog) = 4
          /\ sshError = "connection"
    /\ \A k \in 1..Len(sshLog) :
          /\ k > 1 =>
                /\ Len(sshSleeps) >= k - 1
                /\ sshSleeps[k - 1] = 2 + (k - 2)
          /\ sshLog[k].kind = "returned" => k = Len(sshLog)
    /\ Len(sshLog) <= 4

\* ------------------------------------------------------ TaskContext.run
\* One command handed to TaskContext.run, followed through the backend calls
\* it makes and the exception it raises.
RunLabels == {"apt-bootstrap", "install-uv", "build-cmux-proxy"}

\* str(exc) of what exec_client.run raises, for a command with this label
HttpErrors(label) ==
    {label \o " failed with exit code 1",
     label \o " failed with exit code 2\nstderr:\nboom",
     "exec service request failed: timed out",
     "exec service returned status 500: oops"}

\* result.stdout of the tail command
TailOutputs == {"", " \n", "listening", "listening\n", "  panic: x\n"}

\* str.strip on the outputs above
Strip(text) ==
    CASE text = " \n" -> ""
      [] text = "listening\n" -> "listening"
      [] text = "  panic: x\n" -> "panic: x"
      [] OTHER -> text

\* how the aexec call of _collect_execd_log can end: it raises, or returns a
\* result with an exit code (-1: None) and a stdout
TailOutcomes ==
    {[raised |-> TRUE, exit_code |-> 0, stdout |-> ""]} \cup
    [raised : {FALSE}, exit_code : {-1, 0, 1}, stdout : TailOutputs]

\* _collect_execd_log: None ("") unless the call returned with exit code 0
\* or None and its stripped output is not empty
ExecdLogTail(outcome) ==
    IF outcome.raised THEN ""
    ELSE IF outcome.exit_code \notin {0, -1} THEN ""
    ELSE Strip(outcome.stdout)

\* Variant: the log section is appended whether or not a tail was collected.
RunErrorAlwaysWithTail(exc, log_tail) ==
    exc \o "\n\ncmux-execd.log (tail):\n" \o log_tail

\* if log_tail: raise RuntimeError(f"{exc}\n\ncmux-execd.log (tail):\n
\* {log_tail}".rstrip()) from exc; otherwise raise
RunError(exc, log_tail) ==
    IF log_tail # ""
    THEN exc \o "\n\ncmux-execd.log (tail):\n" \o log_tail
    ELSE exc

CtxRunInit ==
    /\ crLabel \in RunLabels
    /\ crClient \in BOOLEAN
    /\ crCalls = <<>>
    /\ crTail = <<>>
    /\ crError = <<>>
    /\ crpc = "run"

\* return await self.exec_client.run(label, command_to_run, timeout=timeout)
HttpRunReturns ==
    /\ crpc = "run"
    /\ crClient
    /\ crCalls' = Append(crCalls, [via |-> "http", what |-> crLabel])
    /\ crpc' = "returned"
    /\ UNCHANGED <<outsideCtxRun, crLabel, crClient, crTail, crError>>

\* exec_client.run raises: except Exception as exc
HttpRunRaises(message) ==
    /\ crpc = "run"
    /\ crClient
    /\ crCalls' = Append(crCalls, [via |-> "http", what |-> crLabel])
    /\ crError' = <<message>>
    /\ crpc' = "collect"
    /\ UNCHANGED <<outsideCtxRun, crLabel, crClient, crTail>>

\* log_tail = await self._collect_execd_log(), then the raise
CollectLogAndRaise(outcome) ==
    /\ crpc = "collect"
    /\ crCalls' = Append(crCalls, [via |-> "ssh", what |-> "tail -n 200"])
    /\ crTail' = <<outcome>>
    /\ crError' = <<RunError(crError[1], ExecdLogTail(outcome))>>
    /\ crpc' = "raised"
    /\ UNCHANGED <<outsideCtxRun, crLabel, crClient>>

\* return await _run_command(self, label, command_to_run, timeout=timeout):
\* without an exec client the command goes over SSH, and what _run_command
\* raises is raised as it is
SshRunEnds(ok) ==
    /\ crpc = "run"
    /\ ~crClient
    /\ crCalls' = Append(crCalls, [via |-> "ssh", what |-> crLabel])
    /\ crError' = IF ok THEN crError
                  ELSE <<crLabel \o " failed with exit code 1">>
    /\ crpc' = IF ok THEN "returned" ELSE "raised"
    /\ UNCHANGED <<outsideCtxRun, crLabel, crClient, crTail>>

CtxRunNext ==
    \/ HttpRunReturns
    \/ \E message \in HttpErrors(crLabel) : HttpRunRaises(message)
    \/ \E outcome \in TailOutcomes : CollectLogAndRaise(outcome)
    \/ \E ok \in BOOLEAN : SshRunEnds(ok)

IdleButCtxRun ==
    GraphIdle /\ ManIdle /\ RunIdle /\ NormIdle /\ ExecIdle /\ ContextIdle
        /\ RegistryIdle /\ ProfileIdle /\ RequestIdle /\ SshIdle
        /\ UploadIdle
        /\ PairIdle

CtxRunStart == CtxRunInit /\ IdleButCtxRun

SpecCtxRun == CtxRunStart /\ [][CtxRunNext]_vars

\* the calls that ran the command itself
CommandCalls == SelectSeq(crCalls, LAMBDA c : c.what = crLabel)
\* the calls that fetched the log tail
TailCalls == SelectSeq(crCalls, LAMBDA c : c.what = "tail -n 200")
\* the tail call produced a text: it returned with exit code 0 or None and
\* its output is more than white space
TailObtained ==
    /\ crTail # <<>>
    /\ ~crTail[1].raised
    /\ crTail[1].exit_code \in {0, -1}
    /\ crTail[1].stdout \notin {"", " \n"}

\* C32: when the command failed over HTTP, run has made exactly one call for
\* the log tail, over SSH and after the command, and has run the command
\* once; the error it raises is one of the errors of the HTTP client, as it
\* was raised when no tail was obtained, and followed by the log heading and
\* the stripped tail when one was; a command that succeeded fetches no tail.
C32_FailureCarriesLogTail ==
    /\ Len(CommandCalls) <= 1
    /\ crpc = "returned" => TailCalls = <<>> /\ crError = <<>>
    /\ (crpc = "raised" /\ crClient) =>
          /\ crCalls = <<[via |-> "http", what |-> crLabel],
                         [via |-> "ssh", what |-> "tail -n 200"]>>
          /\ \E original \in HttpErrors(crLabel) :
                crError =
                    IF TailObtained
                    THEN <<original \o "\n\ncmux-execd.log (tail):\n"
                             \o (IF crTail[1].stdout = "  panic: x\n"
                                 THEN "panic: x" ELSE "listening")>>
                    ELSE <<original>>

C32_Witness ==
    /\ crpc = "raised"
    /\ crClient
    /\ crTail = <<[raised |-> FALSE, exit_code |-> 0,
                   stdout |-> "listening\n"]>>
    /\ crError = <<crLabel \o " failed with exit code 1"
                     \o "\n\ncmux-execd.log (tail):\nlistening">>

\* ------------------------------------------------------ task_upload_repo
\* the largest number of paths list_repo_files returns
MaxRepoFiles == 3

\* what a listed path is when the archive is written: a file tar.add can
\* read, a path that no longer exists, or a file tar.add cannot read
FileStates == {"readable", "missing", "unreadable"}

RepoListings ==
    UNION {[1..n -> FileStates] : n \in 0..MaxRepoFiles}

\* the files before the first one tar.add fails on
RECURSIVE AddedBefore(_, _)
AddedBefore(files, k) ==
    IF k > Len(files) \/ files[k] = "unreadable" THEN <<>>
    ELSE IF files[k] = "missing" THEN AddedBefore(files, k + 1)
    ELSE <<k>> \o AddedBefore(files, k + 1)

\* tar.add raises for some file
AddFails(files) == \E k \in 1..Len(files) : files[k] = "unreadable"

UploadInit ==
    /\ repoFiles \in RepoListings
    /\ archiveExists = FALSE
    /\ archiveEntries = <<>>
    /\ remoteTar = FALSE
    /\ upError = ""
    /\ upc = "archive"

\* archive = await asyncio.to_thread(create_repo_archive, ctx.repo_root):
\* NamedTemporaryFile(delete=False) creates the file, then every listed path
\* that exists is added. The call is made before the try statement, so an
\* exception of tar.add leaves the task at once.
CreateRepoArchive ==
    /\ upc = "archive"
    /\ archiveExists' = TRUE
    /\ archiveEntries' = AddedBefore(repoFiles, 1)
    /\ IF AddFails(repoFiles)
       THEN upError' = "archive" /\ upc' = "raised"
       ELSE upError' = upError /\ upc' = "upload"
    /\ UNCHANGED <<outsideUpload, repoFiles, remoteTar>>

\* await ctx.instance.aupload(str(archive), ctx.remote_repo_tar) returns
UploadArchiveOk ==
    /\ upc = "upload"
    /\ remoteTar' = TRUE
    /\ upc' = "extract"
    /\ UNCHANGED <<outsideUpload, repoFiles, archiveExists, archiveEntries,
                   upError>>

\* aupload raises; finally: archive.unlink(missing_ok=True)
UploadArchiveFails ==
    /\ upc = "upload"
    /\ archiveExists' = FALSE
    /\ upError' = "upload"
    /\ upc' = "raised"
    /\ UNCHANGED <<outsideUpload, repoFiles, archiveEntries, remoteTar>>

\* await ctx.run("extract-repo", extract_cmd) returns or raises;
\* finally: archive.unlink(missing_ok=True)
ExtractEnds(ok) ==
    /\ upc = "extract"
    /\ archiveExists' = FALSE
    /\ remoteTar' = ~ok
    /\ upError' = IF ok THEN upError ELSE "extract"
    /\ upc' = IF ok THEN "done" ELSE "raised"
    /\ UNCHANGED <<outsideUpload, repoFiles, archiveEntries>>

UploadNext ==
    \/ CreateRepoArchive
    \/ UploadArchiveOk
    \/ UploadArchiveFails
    \/ \E ok \in BOOLEAN : ExtractEnds(ok)

IdleButUpload ==
    GraphIdle /\ ManIdle /\ RunIdle /\ NormIdle /\ ExecIdle /\ ContextIdle
        /\ RegistryIdle /\ ProfileIdle /\ RequestIdle /\ SshIdle
        /\ CtxRunIdle
        /\ PairIdle

UploadStart == UploadInit /\ IdleButUpload

SpecUpload == UploadStart /\ [][UploadNext]_vars

\* C35 (as claimed): however the upload-repo task ends, with success, with a
\* failed upload, with a failed extraction or with a failure while the
\* archive is written, the local archive file does not exist afterwards.
C35_ArchiveDeletedOnEveryExit ==
    upc \in {"done", "raised"} => ~archiveExists

\* --------------------------------- two presets running the task graph at once
\* provision_and_snapshot gathers one provision_and_snapshot_for_preset per
\* preset; each creates its TimingsCollector and TaskContext and calls
\* run_task_graph with the module-level registry.
PairRuns == {1, 2}

ExecTask == "build-setup-exec-binary"
CgroupTask == "configure-provisioning-cgroup"

\* the first tasks of the pipeline, in registration order
PipelineHead ==
    [names |-> <<ExecTask, CgroupTask, "apt-bootstrap",
                 "install-base-packages">>,
     deps |-> [t \in {ExecTask, CgroupTask, "apt-bootstrap",
                      "install-base-packages"} |->
                  IF t = "install-base-packages" THEN {"apt-bootstrap"}
                  ELSE {}]]

\* the same tasks, the last one also waiting for a task nobody registered
PipelineHeadWithUnknown ==
    [PipelineHead EXCEPT
        !.deps["install-base-packages"] = {"apt-bootstrap", "missing"}]

PairRegistries == {PipelineHead, PipelineHeadWithUnknown}

PairNames == Range(pRegistry.names)

\* Variant: the tasks property hands out the registry's own dict.
TasksShared(heap, i) == [ref |-> 0, heap |-> heap]

\* TaskRegistry.tasks: return dict(self._tasks), a new dict object
TasksCopy(heap, i) == [ref |-> i, heap |-> [heap EXCEPT ![i] = heap[0]]]

\* the readiness test of run_task_graph on one run's remaining and completed
PairReady(i) ==
    SelectSeq(pHeap[pRemaining[i]],
              LAMBDA name : pRegistry.deps[name] \subseteq pCompleted[i])

\* the command a task sends: the exec binary is installed with run_via_ssh,
\* every other task uses ctx.run, which takes the HTTP client when the
\* context has one and wraps the command when the context has a cgroup path
PairCommand(i, t) ==
    [task |-> t,
     via |-> IF t # ExecTask /\ pCtx[i].exec_client THEN "http" ELSE "ssh",
     cgroup |-> pCtx[i].cgroup_path]

\* what a finished task leaves in its context
PairCtxAfter(c, t) ==
    IF t = ExecTask THEN [c EXCEPT !.exec_client = TRUE]
    ELSE IF t = CgroupTask THEN [c EXCEPT !.cgroup_path = CgroupPath]
    ELSE c

PairInit ==
    /\ pRegistry \in PairRegistries
    /\ pHeap = [o \in 0..2 |-> IF o = 0 THEN pRegistry.names ELSE <<>>]
    /\ pRemaining = [i \in PairRuns |-> -1]
    /\ pCompleted = [i \in PairRuns |-> {}]
    /\ pCtx = [i \in PairRuns |-> [exec_client |-> FALSE, cgroup_path |-> ""]]
    /\ pState = [i \in PairRuns |-> [t \in PairNames |-> "pending"]]
    /\ pLayer = [i \in PairRuns |-> <<>>]
    /\ pTimings = [i \in PairRuns |-> <<>>]
    /\ pSent = [i \in PairRuns |-> <<>>]
    /\ ppc = [i \in PairRuns |-> "start"]

\* remaining = registry.tasks; completed = set()
PairStartRun(i) ==
    /\ ppc[i] = "start"
    /\ pHeap' = TasksCopy(pHeap, i).heap
    /\ pRemaining' = [pRemaining EXCEPT ![i] = TasksCopy(pHeap, i).ref]
    /\ ppc' = [ppc EXCEPT ![i] = "loop"]
    /\ UNCHANGED <<outsidePair, pRegistry, pCompleted, pCtx, pState, pLayer,
                   pTimings, pSent>>

\* one turn of the while loop up to the gather
PairStartLayer(i) ==
    /\ ppc[i] = "loop"
    /\ pHeap[pRemaining[i]] # <<>>
    /\ PairReady(i) # <<>>
    /\ pLayer' = [pLayer EXCEPT ![i] = PairReady(i)]
    /\ pState' = [pState EXCEPT ![i] =
                    [t \in PairNames |->
                        IF t \in Range(PairReady(i)) THEN "running"
                        ELSE pState[i][t]]]
    /\ ppc' = [ppc EXCEPT ![i] = "gather"]
    /\ UNCHANGED <<outsidePair, pRegistry, pHeap, pRemaining, pCompleted,
                   pCtx, pTimings, pSent>>

\* if not ready: raise RuntimeError("Dependency cycle detected: ...")
PairRaiseCycle(i) ==
    /\ ppc[i] = "loop"
    /\ pHeap[pRemaining[i]] # <<>>
    /\ PairReady(i) = <<>>
    /\ ppc' = [ppc EXCEPT ![i] = "cycle"]
    /\ UNCHANGED <<outsidePair, pRegistry, pHeap, pRemaining, pCompleted,
                   pCtx, pState, pLayer, pTimings, pSent>>

\* the while loop ends
PairReturn(i) ==
    /\ ppc[i] = "loop"
    /\ pHeap[pRemaining[i]] = <<>>
    /\ ppc' = [ppc EXCEPT ![i] = "returned"]
    /\ UNCHANGED <<outsidePair, pRegistry, pHeap, pRemaining, pCompleted,
                   pCtx, pState, pLayer, pTimings, pSent>>

\* _run_task_with_timing: task.func(ctx) sends its command and returns, the
\* task:<name> entry is added to the run's timings
PairTaskSucceeds(i, t) ==
    /\ ppc[i] = "gather"
    /\ pState[i][t] = "running"
    /\ pSent' = [pSent EXCEPT ![i] = Append(@, PairCommand(i, t))]
    /\ pCtx' = [pCtx EXCEPT ![i] = PairCtxAfter(@, t)]
    /\ pState' = [pState EXCEPT ![i][t] = "ok"]
    /\ pTimings' = [pTimings EXCEPT ![i] = TimingsAdd(@, "task", <<t>>)]
    /\ UNCHANGED <<outsidePair, pRegistry, pHeap, pRemaining, pCompleted,
                   pLayer, ppc>>

\* task.func(ctx) sends its command and raises
PairTaskFails(i, t) ==
    /\ ppc[i] = "gather"
    /\ pState[i][t] = "running"
    /\ pSent' = [pSent EXCEPT ![i] = Append(@, PairCommand(i, t))]
    /\ pState' = [pState EXCEPT ![i][t] = "failed"]
    /\ UNCHANGED <<outsidePair, pRegistry, pHeap, pRemaining, pCompleted,
                   pCtx, pLayer, pTimings, ppc>>

\* the gather returned: the layer entry is added, and for each task of the
\* layer completed.add(task.name); remaining.pop(task.name, None)
PairFinishLayer(i) ==
    /\ ppc[i] = "gather"
    /\ \A t \in Range(pLayer[i]) : pState[i][t] = "ok"
    /\ pTimings' = [pTimings EXCEPT ![i] = TimingsAdd(@, "layer", pLayer[i])]
    /\ pCompleted' = [pCompleted EXCEPT ![i] = CompletedAfter(@, pLayer[i])]
    /\ pHeap' = [pHeap EXCEPT ![pRemaining[i]] = RemainingAfter(@, pLayer[i])]
    /\ pLayer' = [pLayer EXCEPT ![i] = <<>>]
    /\ ppc' = [ppc EXCEPT ![i] = "loop"]
    /\ UNCHANGED <<outsidePair, pRegistry, pRemaining, pCtx, pState, pSent>>

\* the gather raised: run_task_graph ends with the task's exception
PairLayerFails(i) ==
    /\ ppc[i] = "gather"
    /\ \E t \in Range(pLayer[i]) : pState[i][t] = "failed"
    /\ ppc' = [ppc EXCEPT ![i] = "failed"]
    /\ UNCHANGED <<outsidePair, pRegistry, pHeap, pRemaining, pCompleted,
                   pCtx, pState, pLayer, pTimings, pSent>>

PairNext ==
    \E i \in PairRuns :
        \/ PairStartRun(i)
        \/ PairStartLayer(i)
        \/ PairRaiseCycle(i)
        \/ PairReturn(i)
        \/ \E t \in PairNames : PairTaskSucceeds(i, t)
        \/ \E t \in PairNames : PairTaskFails(i, t)
        \/ PairFinishLayer(i)
        \/ PairLayerFails(i)

IdleButPair ==
    GraphIdle /\ ManIdle /\ RunIdle /\ NormIdle /\ ExecIdle /\ ContextIdle
        /\ RegistryIdle /\ ProfileIdle /\ RequestIdle /\ SshIdle
        /\ CtxRunIdle /\ UploadIdle

PairStart == PairInit /\ IdleButPair

SpecPair == PairStart /\ [][PairNext]_vars

\* the tasks a run has a task:<name> timing for, in the order they ended
PairTimedTasks(i) ==
    SelectSeq(pTimings[i], LAMBDA e : e.kind = "task")

\* C38: while two presets run the task graph at once, and after each run
\* has ended in whatever way, the registry holds the tasks it held at the
\* start; a run that returned has run every registered task exactly once;
\* the layer a run starts is made of the tasks whose dependencies that same
\* run has completed; and a run's command goes over HTTP, or is wrapped for
\* the cgroup, exactly when that same run has finished its exec binary task,
\* or its cgroup task, before.
C38_RunsDoNotShareState ==
    /\ pHeap[0] = pRegistry.names
    /\ \A i \in PairRuns :
          /\ ppc[i] = "returned" =>
                /\ pCompleted[i] = PairNames
                /\ Len(PairTimedTasks(i)) = Len(pRegistry.names)
                /\ \A t \in PairNames :
                      \E k \in 1..Len(pTimings[i]) :
                          pTimings[i][k] = [kind |-> "task", names |-> <<t>>]
          /\ ppc[i] = "gather" =>
                Range(pLayer[i]) =
                    {t \in PairNames \ pCompleted[i] :
                        pRegistry.deps[t] \subseteq pCompleted[i]}
          /\ \A k \in 1..Len(pSent[i]) :
                LET before == {pSent[i][j].task : j \in 1..(k - 1)}
                    finished == {t \in PairNames : pState[i][t] = "ok"}
                IN  /\ (pSent[i][k].via = "http") <=>
                          /\ pSent[i][k].task # "build-setup-exec-binary"
                          /\ "build-setup-exec-binary" \in before \cap finished
                    /\ (pSent[i][k].cgroup # "") <=>
                          "configure-provisioning-cgroup"
                              \in before \cap finished

C38_Witness ==
    /\ ppc = [i \in PairRuns |-> "returned"]
    /\ pHeap = [o \in 0..2 |-> IF o = 0 THEN pRegistry.names ELSE <<>>]
    /\ pSent[1][2].via = "http"
    /\ pSent[1][2].cgroup = ""
    /\ pSent[2][3].via = "ssh"
    /\ pSent[2][3].cgroup # ""

====
